---- MODULE Spec2Model ----
(***************************************************************************)
(* mini-dalle: a local web front-end over an image-generation API.         *)
(*                                                                         *)
(* Two state machines are modelled from src/server.js (the revision that   *)
(* starts at line 590):                                                    *)
(*   - the HTTP server: POST /generate and POST /edit, each split at its   *)
(*     single await (the call to the image provider);                      *)
(*   - the page script: the image history, the selection and the           *)
(*     generate / edit click handlers, each split at its await of          *)
(*     postJSON.                                                           *)
(* JSON values are tagged records (field k is the JavaScript kind), so     *)
(* that a string "80", the number 80 and a missing field are different     *)
(* values, as they are for the code.                                       *)
(***************************************************************************)
EXTENDS Integers, Sequences, FiniteSets, TLC

VARIABLES
    \* ---- server: one request from arrival to response
    srvPc,          \* "idle" | "awaiting" (provider call outstanding) | "responded"
    req,            \* the request being handled: [endpoint, body], or NoRequest
    providerCalls,  \* the calls made to openai.images.*, in order
    responses,      \* the HTTP responses sent for req, in order
    \* ---- client: the page script's module-level state and the DOM it drives
    imageHistory,   \* const imageHistory = []  (newest first)
    selectedId,     \* let selectedId = null
    generateBtnDisabled,
    editBtnDisabled,
    editUIVisible,  \* editSectionEl / editBtn display
    preview,        \* previewEl: NoImage while hidden, else the data URL shown
    download,       \* downloadEl: NoImage while hidden, else [href, download]
    thumbs,         \* historyEl's .thumb buttons: [id, active], first = leftmost
    statusText,     \* statusEl.textContent
    pending,        \* the generateImage / editImage call suspended at its await
    referenceImages,      \* let referenceImages = []
    editReferenceImages,  \* let editReferenceImages = []
    localStorage,   \* the item stored under SETTINGS_STORAGE_KEY, or Null
    now,            \* the last value Date.now() returned
    formEls,        \* the values of sizeEl, qualityEl, formatEl and compressionEl
    referenceInput, \* referenceImagesInputEl.files: the files the input shows
    referenceReads  \* the updateReferenceImagesFromInput calls suspended at an await

srvVars == <<srvPc, req, providerCalls, responses>>
clientVars == <<imageHistory, selectedId, generateBtnDisabled, editBtnDisabled,
                editUIVisible, preview, download, thumbs, statusText, pending,
                referenceImages, editReferenceImages, localStorage, now, formEls,
                referenceInput, referenceReads>>
vars == <<srvPc, req, providerCalls, responses,
          imageHistory, selectedId, generateBtnDisabled, editBtnDisabled,
          editUIVisible, preview, download, thumbs, statusText, pending,
          referenceImages, editReferenceImages, localStorage, now, formEls,
          referenceInput, referenceReads>>

(***************************************************************************)
(* JavaScript values                                                       *)
(***************************************************************************)
Undefined == [k |-> "undefined"]
Null == [k |-> "null"]
Str(s) == [k |-> "string", s |-> s]
\* numbers are kept in tenths, so that 3.5 is a value and Number.isInteger can fail
Num(n) == [k |-> "number", tenths |-> 10 * n]
Tenths(t) == [k |-> "number", tenths |-> t]
NaN == [k |-> "NaN"]
Arr(items) == [k |-> "array", items |-> items]

\* !v is ~Truthy(v)
Truthy(v) ==
    CASE v.k = "undefined" -> FALSE
      [] v.k = "null" -> FALSE
      [] v.k = "NaN" -> FALSE
      [] v.k = "string" -> v.s # ""
      [] v.k = "number" -> v.tenths # 0
      [] OTHER -> TRUE

\* typeof v === "string"
IsString(v) == v.k = "string"

\* Number.isInteger(v)
NumberIsInteger(v) == v.k = "number" /\ v.tenths % 10 = 0

\* v < n and v > n as the code uses them, after Number.isInteger(v) held
NumberLess(v, n) == v.tenths < 10 * n
NumberGreater(v, n) == v.tenths > 10 * n

\* a || b
OrElse(a, b) == IF Truthy(a) THEN a ELSE b

\* new Set([...strings]).has(v): strict equality, so only a string can match
SetHas(set, v) == v.k = "string" /\ v.s \in set

Range(f) == {f[i] : i \in DOMAIN f}

(***************************************************************************)
(* Characters of the strings whose content the code inspects (trim,        *)
(* base64 decoding, file-name sanitising).  TLC cannot index a string, so  *)
(* each such string is listed with its characters.                         *)
(***************************************************************************)
StringChars ==
    ("" :> <<>>) @@
    (" " :> <<" ">>) @@
    ("Q" :> <<"Q">>) @@
    ("QUJD" :> <<"Q", "U", "J", "D">>) @@
    ("REVG" :> <<"R", "E", "V", "G">>) @@
    ("QQ==" :> <<"Q", "Q", "=", "=">>) @@
    ("!!!!" :> <<"!", "!", "!", "!">>) @@
    ("80" :> <<"8", "0">>) @@
    ("101" :> <<"1", "0", "1">>) @@
    ("0" :> <<"0">>) @@
    ("50" :> <<"5", "0">>) @@
    ("-1" :> <<"-", "1">>) @@
    ("3.5" :> <<"3", ".", "5">>) @@
    ("abc" :> <<"a", "b", "c">>) @@
    ("a red fox" :> <<"a", " ", "r", "e", "d", " ", "f", "o", "x">>) @@
    (" make it blue " :> <<" ", "m", "a", "k", "e", " ", "i", "t", " ", "b", "l", "u", "e", " ">>) @@
    ("cat" :> <<"c", "a", "t">>) @@
    ("a.png" :> <<"a", ".", "p", "n", "g">>) @@
    ("b.jpg" :> <<"b", ".", "j", "p", "g">>) @@
    ("c.gif" :> <<"c", ".", "g", "i", "f">>) @@
    ("my dog" :> <<"m", "y", " ", "d", "o", "g">>) @@
    (" bad " :> <<" ", "b", "a", "d", " ">>)

Chars(s) == StringChars[s]

WhiteSpace == {" "}

\* String.prototype.trim, on the characters
RECURSIVE TrimStart(_)
TrimStart(cs) ==
    IF cs # <<>> /\ Head(cs) \in WhiteSpace THEN TrimStart(Tail(cs)) ELSE cs

RECURSIVE TrimEnd(_)
TrimEnd(cs) ==
    IF cs # <<>> /\ cs[Len(cs)] \in WhiteSpace
    THEN TrimEnd(SubSeq(cs, 1, Len(cs) - 1))
    ELSE cs

Trim(cs) == TrimEnd(TrimStart(cs))

\* the string made of the characters
RECURSIVE StringOf(_)
StringOf(cs) == IF cs = <<>> THEN "" ELSE Head(cs) \o StringOf(Tail(cs))

Base64Alphabet == {"Q", "U", "J", "D", "R", "E", "V", "G"}

\* the base64 characters that carry data: those before the first "="
RECURSIVE Base64Data(_)
Base64Data(cs) ==
    IF cs = <<>> \/ Head(cs) = "=" THEN <<>>
    ELSE IF Head(cs) \in Base64Alphabet THEN <<Head(cs)>> \o Base64Data(Tail(cs))
    ELSE Base64Data(Tail(cs))

\* Buffer.from(s, "base64").length: six bits per data character, whole bytes only
BufferFromBase64Length(s) == (Len(Base64Data(Chars(s))) * 6) \div 8

(***************************************************************************)
(* Server: constants and helpers                                           *)
(***************************************************************************)
ALLOWED_SIZES == {"1024x1024", "1024x1536", "1536x1024"}
ALLOWED_QUALITIES == {"low", "medium", "high"}
ALLOWED_OUTPUT_FORMATS == {"jpeg", "png"}
ALLOWED_SOURCE_MIME_TYPES == {"image/jpeg", "image/png"}
MAX_REFERENCE_IMAGES == 4

\* a thrown Error(message), and a normal return
Throw(message) == [ok |-> FALSE, message |-> message]
Return(value) == [ok |-> TRUE, value |-> value]

\* new File([imageBuffer], fileStem + "." + extension, {type: mimeType});
\* name is the list of pieces whose concatenation is the file name, bytes the
\* data characters the buffer was decoded from
createImageFileFromBase64(imageB64, mimeType, fileStem) ==
    IF ~IsString(imageB64) \/ Trim(Chars(imageB64.s)) = <<>>
    THEN Throw("Missing source image data.")
    ELSE IF ~SetHas(ALLOWED_SOURCE_MIME_TYPES, mimeType)
    THEN Throw("Unsupported source image type. Use PNG or JPEG.")
    ELSE IF BufferFromBase64Length(imageB64.s) = 0
    THEN Throw("Invalid source image data.")
    ELSE Return([k |-> "file", name |-> fileStem \o <<".", IF mimeType = Str("image/jpeg") THEN "jpg" ELSE "png">>,
                        type |-> mimeType,
                        bytes |-> Base64Data(Chars(imageB64.s))])

\* the characters /[^a-zA-Z0-9._-]/g leaves alone, among those of StringChars
SafeStemChars == {"a", "b", "c", "d", "g", "m", "o", "t", "y",
                  "D", "E", "G", "J", "Q", "R", "U", "V", ".", "_", "-"}

\* (rawName || "reference-" + (index + 1)).replace(/[^a-zA-Z0-9._-]/g, "_"),
\* index counted from 1 here
SafeStem(item, index) ==
    LET rawName == IF IsString(item.name) THEN Trim(Chars(item.name.s)) ELSE <<>>
    IN  IF rawName # <<>>
        THEN [i \in DOMAIN rawName |->
                 IF rawName[i] \in SafeStemChars THEN rawName[i] ELSE "_"]
        ELSE <<"reference-", ToString(index)>>

\* the callback of referenceImages.map
ReferenceImageFile(item, index) ==
    IF ~Truthy(item) \/ item.k # "object"
    THEN Throw("Each reference image must be an object.")
    ELSE createImageFileFromBase64(item.b64, item.mime_type, SafeStem(item, index))

\* Array.prototype.map with a callback that may throw: the first throw, in
\* index order, ends the map
MapReferenceImages(items) ==
    LET thrown == {i \in DOMAIN items : ~ReferenceImageFile(items[i], i).ok}
        first == CHOOSE i \in thrown : \A j \in thrown : i <= j
    IN  IF thrown # {}
        THEN ReferenceImageFile(items[first], first)
        ELSE Return([i \in DOMAIN items |-> ReferenceImageFile(items[i], i).value])

\* an off-by-one length check
parseReferenceImageFiles_OffByOne(images) ==
    IF images.k \in {"undefined", "null"} THEN Return(<<>>)
    ELSE IF images.k # "array"
    THEN Throw("reference_images must be an array.")
    ELSE IF Len(images.items) >= MAX_REFERENCE_IMAGES
    THEN Throw("You can upload up to " \o ToString(MAX_REFERENCE_IMAGES) \o " reference images.")
    ELSE MapReferenceImages(images.items)

parseReferenceImageFiles(images) ==
    IF images.k \in {"undefined", "null"} THEN Return(<<>>)
    ELSE IF images.k # "array"
    THEN Throw("reference_images must be an array.")
    ELSE IF Len(images.items) > MAX_REFERENCE_IMAGES
    THEN Throw("You can upload up to " \o ToString(MAX_REFERENCE_IMAGES) \o " reference images.")
    ELSE MapReferenceImages(images.items)

\* lower.includes("safety") || lower.includes("policy violation"), for the
\* texts of the model (TLC cannot search inside a string): the texts that
\* contain one of the terms are listed
SafetyTexts == {"Your request was rejected by the safety system.",
                "Content Policy Violation detected.",
                "req_safety1"}

IncludesSafetyTerm(text) == text \in SafetyTexts

\* Array.prototype.join(" ")
RECURSIVE Join(_)
Join(parts) ==
    IF parts = <<>> THEN ""
    ELSE IF Len(parts) = 1 THEN parts[1]
    ELSE parts[1] \o " " \o Join(Tail(parts))

\* error: [status, request_id, header_request_id, response_header_request_id,
\* error_message (error.error.message), message]
formatOpenAIError(error, fallbackMessage) ==
    LET status == error.status
        requestId == OrElse(error.request_id,
                        OrElse(error.header_request_id,
                           OrElse(error.response_header_request_id, Null)))
        apiMessage == OrElse(error.error_message, OrElse(error.message, Str(fallbackMessage)))
        combined == (IF Truthy(status)
                     THEN <<"HTTP " \o ToString(status.tenths \div 10) \o ".">> ELSE <<>>)
                    \o <<apiMessage.s>>
                    \o (IF Truthy(requestId)
                        THEN <<"Request ID: " \o requestId.s \o ".">> ELSE <<>>)
        text == Join(combined)
        looksLikeSafetyBlock ==
            IncludesSafetyTerm(apiMessage.s)
            \/ (Truthy(requestId) /\ IncludesSafetyTerm(requestId.s))
    IN  IF looksLikeSafetyBlock
        THEN text \o " If this prompt is benign, retry once with simpler wording. If it repeats, share the Request ID with OpenAI support."
        ELSE text

(***************************************************************************)
(* Server: the two handlers.  Each is split at its await: Dispatch is the  *)
(* code up to the provider call (a 400 response, or the call), Settle the  *)
(* code after it.                                                          *)
(***************************************************************************)
\* res.status(status).json({error: message})
ErrorResponse(status, message) == [status |-> status, body |-> [error |-> message]]

\* res.json({b64, mime_type: mimeType})
ImageResponse(b64, mimeType) ==
    [status |-> 200, body |-> [b64 |-> b64, mime_type |-> Str(mimeType)]]

Respond(response) == [responded |-> TRUE, response |-> response]
CallProvider(operation, payload) ==
    [responded |-> FALSE, call |-> [operation |-> operation, payload |-> payload]]

\* validationError.message || fallback
MessageOr(message, fallback) == IF message # "" THEN message ELSE fallback

\* the check without its format guard, as the page script has it
BadCompression_AnyFormat(body) ==
    \/ ~NumberIsInteger(body.output_compression)
    \/ NumberLess(body.output_compression, 0)
    \/ NumberGreater(body.output_compression, 100)

\* output_format === "jpeg" && (!Number.isInteger(c) || c < 0 || c > 100)
BadCompression(body) ==
    /\ body.output_format = Str("jpeg")
    /\ \/ ~NumberIsInteger(body.output_compression)
       \/ NumberLess(body.output_compression, 0)
       \/ NumberGreater(body.output_compression, 100)

\* if (output_format === "jpeg") payload.output_compression = output_compression
WithCompression(payload, body) ==
    IF body.output_format = Str("jpeg")
    THEN payload @@ [output_compression |-> body.output_compression]
    ELSE payload

\* a handler that forgets the quality check
SettingsError_NoQualityCheck(body) ==
    IF ~SetHas(ALLOWED_SIZES, body.size)
    THEN "Unsupported size. Use 1024x1024, 1024x1536, or 1536x1024."
    ELSE IF ~SetHas(ALLOWED_OUTPUT_FORMATS, body.output_format)
    THEN "Unsupported format. Use jpeg or png."
    ELSE IF BadCompression(body)
    THEN "Compression must be an integer from 0 to 100."
    ELSE ""

\* the checks with quality tested before size
SettingsError_QualityFirst(body) ==
    IF ~SetHas(ALLOWED_QUALITIES, body.quality)
    THEN "Unsupported quality. Use low, medium, or high."
    ELSE IF ~SetHas(ALLOWED_SIZES, body.size)
    THEN "Unsupported size. Use 1024x1024, 1024x1536, or 1536x1024."
    ELSE IF ~SetHas(ALLOWED_OUTPUT_FORMATS, body.output_format)
    THEN "Unsupported format. Use jpeg or png."
    ELSE IF BadCompression(body)
    THEN "Compression must be an integer from 0 to 100."
    ELSE ""

\* the checks of size, quality, format and compression, shared by both
\* handlers: the 400 message of the first failing one, or "" when all pass
SettingsError(body) ==
    IF ~SetHas(ALLOWED_SIZES, body.size)
    THEN "Unsupported size. Use 1024x1024, 1024x1536, or 1536x1024."
    ELSE IF ~SetHas(ALLOWED_QUALITIES, body.quality)
    THEN "Unsupported quality. Use low, medium, or high."
    ELSE IF ~SetHas(ALLOWED_OUTPUT_FORMATS, body.output_format)
    THEN "Unsupported format. Use jpeg or png."
    ELSE IF BadCompression(body)
    THEN "Compression must be an integer from 0 to 100."
    ELSE ""

\* a /generate handler that validates the references and then leaves them out
GenerateDispatch_NoReferences(body) ==
    IF ~Truthy(body.prompt) \/ ~IsString(body.prompt)
    THEN Respond(ErrorResponse(400, "Missing prompt"))
    ELSE IF SettingsError(body) # ""
    THEN Respond(ErrorResponse(400, SettingsError(body)))
    ELSE LET parsed == parseReferenceImageFiles(body.reference_images)
             settings == [model |-> "gpt-image-1", prompt |-> body.prompt,
                          size |-> body.size, quality |-> body.quality,
                          output_format |-> body.output_format]
         IN  IF ~parsed.ok
             THEN Respond(ErrorResponse(400,
                      MessageOr(parsed.message, "Invalid reference_images payload")))
             ELSE CallProvider("images.generate", WithCompression(settings, body))

\* app.post("/generate"), up to the await
GenerateDispatch(body) ==
    IF ~Truthy(body.prompt) \/ ~IsString(body.prompt)
    THEN Respond(ErrorResponse(400, "Missing prompt"))
    ELSE IF SettingsError(body) # ""
    THEN Respond(ErrorResponse(400, SettingsError(body)))
    ELSE LET parsed == parseReferenceImageFiles(body.reference_images)
             referenceImageFiles == parsed.value
             settings == [model |-> "gpt-image-1", prompt |-> body.prompt,
                          size |-> body.size, quality |-> body.quality,
                          output_format |-> body.output_format]
         IN  IF ~parsed.ok
             THEN Respond(ErrorResponse(400,
                      MessageOr(parsed.message, "Invalid reference_images payload")))
             ELSE IF Len(referenceImageFiles) > 0
             THEN CallProvider("images.edit",
                      WithCompression(
                          settings @@ [image |-> IF Len(referenceImageFiles) = 1
                                                 THEN referenceImageFiles[1]
                                                 ELSE Arr(referenceImageFiles)],
                          body))
             ELSE CallProvider("images.generate", WithCompression(settings, body))

\* a check by type alone, which lets the empty string through
MissingSourceImage_TypeOnly(body) == ~IsString(body.image_b64)

\* !image_b64 || typeof image_b64 !== "string"
MissingSourceImage(body) == ~Truthy(body.image_b64) \/ ~IsString(body.image_b64)

\* the earlier revision's rule: anything but image/jpeg becomes image/png
SourceMimeType_DefaultInvalid(body) ==
    IF body.image_mime_type = Str("image/jpeg") THEN Str("image/jpeg") ELSE Str("image/png")

\* const sourceMimeType = image_mime_type || "image/png"
SourceMimeType(body) == OrElse(body.image_mime_type, Str("image/png"))

\* an /edit handler that puts the references before the source image
EditDispatch_SourceLast(body) ==
    IF ~Truthy(body.prompt) \/ ~IsString(body.prompt)
    THEN Respond(ErrorResponse(400, "Missing prompt"))
    ELSE IF MissingSourceImage(body)
    THEN Respond(ErrorResponse(400, "Missing source image"))
    ELSE IF SettingsError(body) # ""
    THEN Respond(ErrorResponse(400, SettingsError(body)))
    ELSE LET sourceMimeType == SourceMimeType(body)
             source == createImageFileFromBase64(body.image_b64, sourceMimeType, <<"source">>)
             parsed == parseReferenceImageFiles(body.reference_images)
             settings == [model |-> "gpt-image-1", prompt |-> body.prompt,
                          size |-> body.size, quality |-> body.quality,
                          output_format |-> body.output_format]
         IN  IF ~source.ok
             THEN Respond(ErrorResponse(400,
                      MessageOr(source.message, "Invalid source image payload")))
             ELSE IF ~parsed.ok
             THEN Respond(ErrorResponse(400,
                      MessageOr(parsed.message, "Invalid reference_images payload")))
             ELSE CallProvider("images.edit",
                      WithCompression(
                          settings @@ [image |-> IF Len(parsed.value) > 0
                                                 THEN Arr(parsed.value \o <<source.value>>)
                                                 ELSE source.value],
                          body))

\* app.post("/edit"), up to the await
EditDispatch(body) ==
    IF ~Truthy(body.prompt) \/ ~IsString(body.prompt)
    THEN Respond(ErrorResponse(400, "Missing prompt"))
    ELSE IF MissingSourceImage(body)
    THEN Respond(ErrorResponse(400, "Missing source image"))
    ELSE IF SettingsError(body) # ""
    THEN Respond(ErrorResponse(400, SettingsError(body)))
    ELSE LET sourceMimeType == SourceMimeType(body)
             source == createImageFileFromBase64(body.image_b64, sourceMimeType, <<"source">>)
             parsed == parseReferenceImageFiles(body.reference_images)
             settings == [model |-> "gpt-image-1", prompt |-> body.prompt,
                          size |-> body.size, quality |-> body.quality,
                          output_format |-> body.output_format]
         IN  IF ~source.ok
             THEN Respond(ErrorResponse(400,
                      MessageOr(source.message, "Invalid source image payload")))
             ELSE IF ~parsed.ok
             THEN Respond(ErrorResponse(400,
                      MessageOr(parsed.message, "Invalid reference_images payload")))
             ELSE CallProvider("images.edit",
                      WithCompression(
                          settings @@ [image |-> IF Len(parsed.value) > 0
                                                 THEN Arr(<<source.value>> \o parsed.value)
                                                 ELSE source.value],
                          body))

\* the handler of the endpoint, up to its await
DispatchOf(endpoint, body) ==
    IF endpoint = "/generate" THEN GenerateDispatch(body) ELSE EditDispatch(body)

\* result.data?.[0]?.b64_json
FirstB64(result) ==
    IF result.data.k # "array" \/ result.data.items = <<>> THEN Undefined
    ELSE result.data.items[1].b64_json

\* a handler that reports a missing image like a provider failure
Settle_NoImage500(endpoint, body, outcome) ==
    IF outcome.kind = "throw"
    THEN ErrorResponse(500,
             formatOpenAIError(outcome.error,
                 IF endpoint = "/generate" THEN "Image generation failed"
                 ELSE "Image edit failed"))
    ELSE IF ~Truthy(FirstB64(outcome.result))
    THEN ErrorResponse(500,
             IF endpoint = "/generate" THEN "No image returned by API"
             ELSE "No edited image returned by API")
    ELSE ImageResponse(FirstB64(outcome.result),
             IF body.output_format = Str("jpeg") THEN "image/jpeg" ELSE "image/png")

\* a handler that answers with the type of the source image
Settle_SourceType(endpoint, body, outcome) ==
    IF outcome.kind = "throw"
    THEN ErrorResponse(500,
             formatOpenAIError(outcome.error,
                 IF endpoint = "/generate" THEN "Image generation failed"
                 ELSE "Image edit failed"))
    ELSE IF ~Truthy(FirstB64(outcome.result))
    THEN ErrorResponse(502,
             IF endpoint = "/generate" THEN "No image returned by API"
             ELSE "No edited image returned by API")
    ELSE ImageResponse(FirstB64(outcome.result),
             IF body.image_mime_type = Str("image/jpeg") THEN "image/jpeg" ELSE "image/png")

\* the handler after the await: outcome is the provider's result or its throw
Settle(endpoint, body, outcome) ==
    IF outcome.kind = "throw"
    THEN ErrorResponse(500,
             formatOpenAIError(outcome.error,
                 IF endpoint = "/generate" THEN "Image generation failed"
                 ELSE "Image edit failed"))
    ELSE IF ~Truthy(FirstB64(outcome.result))
    THEN ErrorResponse(502,
             IF endpoint = "/generate" THEN "No image returned by API"
             ELSE "No edited image returned by API")
    ELSE ImageResponse(FirstB64(outcome.result),
             IF body.output_format = Str("jpeg") THEN "image/jpeg" ELSE "image/png")


(***************************************************************************)
(* Server: the request bodies and provider outcomes the model draws from   *)
(***************************************************************************)
\* the longest reference_images array a request carries
MaxRefs == 5

RefItem(mimeType, b64, name) ==
    [k |-> "object", mime_type |-> mimeType, b64 |-> b64, name |-> name]

GoodRefItems == {RefItem(Str("image/png"), Str("QUJD"), Str("cat")),
                 RefItem(Str("image/jpeg"), Str("REVG"), Str("my dog"))}

\* entries createImageFileFromBase64 or the map callback refuses
BadRefItems == {RefItem(Str("image/gif"), Str("QUJD"), Str(" bad ")),
                RefItem(Undefined, Str("QUJD"), Undefined),
                RefItem(Str("image/png"), Undefined, Str(" bad ")),
                RefItem(Str("image/png"), Str(" "), Str(" bad ")),
                RefItem(Str("image/png"), Str("!!!!"), Str(" bad ")),
                Str("cat"),
                Null}

SeqsUpTo(set, n) == UNION {[1..m -> set] : m \in 0..n}

\* arrays of good entries: every array of up to two, and the longer ones that
\* alternate the two good entries
GoodRefLists ==
    SeqsUpTo(GoodRefItems, 2)
    \cup {[i \in 1..m |-> IF i % 2 = 1 THEN a ELSE b] :
             m \in 3..MaxRefs, a \in GoodRefItems, b \in GoodRefItems}

\* arrays of one repeated good entry in which one position holds a bad entry
OneBadRefLists ==
    {[i \in 1..m |-> IF i = at THEN bad ELSE RefItem(Str("image/png"), Str("QUJD"), Str("cat"))] :
        m \in 1..MaxRefs, at \in 1..MaxRefs, bad \in BadRefItems}

RefLists == GoodRefLists \cup OneBadRefLists

BodyFields == {"prompt", "size", "quality", "output_format", "output_compression",
               "image_b64", "image_mime_type", "reference_images"}

FieldValues(f) ==
    CASE f = "prompt" -> {Undefined, Null, Str(""), Str("a red fox"), Num(7)}
      [] f = "size" -> {Undefined, Str("1024x1024"), Str("1024x1536"), Str("1536x1024"),
                        Str("512x512"), Num(1024)}
      [] f = "quality" -> {Undefined, Str("low"), Str("medium"), Str("high"), Str("ultra")}
      [] f = "output_format" -> {Undefined, Str("jpeg"), Str("png"), Str("webp")}
      [] f = "output_compression" -> {Undefined, Num(-1), Num(0), Num(80), Num(100), Num(101),
                                      Str("80"), Tenths(35)}
      [] f = "image_b64" -> {Undefined, Str(""), Str(" "), Str("QUJD"), Str("QQ=="),
                             Str("Q"), Str("!!!!"), Num(7)}
      [] f = "image_mime_type" -> {Undefined, Null, Str(""), Str("image/png"),
                                   Str("image/jpeg"), Str("image/gif"), Num(7)}
      [] f = "reference_images" -> {Undefined, Null, Str("cat")} \cup {Arr(l) : l \in RefLists}

\* two well-formed requests: png without compression, jpeg with compression 80
BaseBodies(endpoint) ==
    {[prompt |-> Str("a red fox"), size |-> Str("1024x1024"), quality |-> Str("low"),
      output_format |-> fc[1], output_compression |-> fc[2],
      image_b64 |-> IF endpoint = "/edit" THEN Str("QUJD") ELSE Undefined,
      image_mime_type |-> IF endpoint = "/edit" THEN Str("image/png") ELSE Undefined,
      reference_images |-> Undefined] :
        fc \in {<<Str("png"), Undefined>>, <<Str("jpeg"), Num(80)>>}}

\* the fields a handler reads
FieldsOf(endpoint) ==
    IF endpoint = "/edit" THEN BodyFields
    ELSE BodyFields \ {"image_b64", "image_mime_type"}

\* the replacements <<field, value>> a request of the endpoint can undergo
Replacements(endpoint) ==
    UNION {{<<f, v>> : v \in FieldValues(f)} : f \in FieldsOf(endpoint)}

\* the request bodies: a well-formed request with up to two fields replaced
Bodies(endpoint) ==
    {[b EXCEPT ![r1[1]] = r1[2], ![r2[1]] = r2[2]] :
        b \in BaseBodies(endpoint), r1 \in Replacements(endpoint), r2 \in Replacements(endpoint)}

GenerateBodies == Bodies("/generate")
EditBodies == Bodies("/edit")

Image(b64) == [b64_json |-> b64]

\* what openai.images.generate / edit resolves with
ProviderResults ==
    {[data |-> Arr(<<Image(Str("QUJD"))>>)],
     [data |-> Arr(<<Image(Str("REVG")), Image(Str("QUJD"))>>)],
     [data |-> Arr(<<Image(Undefined), Image(Str("QUJD"))>>)],
     [data |-> Arr(<<Image(Str(""))>>)],
     [data |-> Arr(<<>>)],
     [data |-> Undefined]}

ProviderError(status, requestId, headerId, errorMessage, message) ==
    [status |-> status, request_id |-> requestId, header_request_id |-> headerId,
     response_header_request_id |-> Undefined,
     error_message |-> errorMessage, message |-> message]

\* what they throw: provider rejections and transport failures
ProviderErrors ==
    {ProviderError(Num(400), Str("req_123"), Undefined,
                   Str("Your request was rejected by the safety system."),
                   Str("400 Your request was rejected by the safety system.")),
     ProviderError(Num(429), Undefined, Str("req_456"), Undefined, Str("Rate limit exceeded.")),
     ProviderError(Num(400), Undefined, Undefined, Undefined,
                   Str("Content Policy Violation detected.")),
     ProviderError(Num(500), Undefined, Str("req_safety1"), Undefined,
                   Str("Rate limit exceeded.")),
     ProviderError(Undefined, Undefined, Undefined, Undefined, Str("fetch failed")),
     ProviderError(Undefined, Undefined, Undefined, Undefined, Undefined)}

ProviderOutcomes ==
    {[kind |-> "resolve", result |-> r] : r \in ProviderResults}
    \cup {[kind |-> "throw", error |-> e] : e \in ProviderErrors}

(***************************************************************************)
(* Client: values                                                          *)
(***************************************************************************)
NoRequest == [k |-> "none"]
NoImage == [k |-> "none"]

\* the form as the page's HTML gives it: the first option of each select and
\* the value attribute of the compression input
DefaultForm ==
    [size |-> "1024x1024", quality |-> "low", format |-> "jpeg", compression |-> "80"]

(***************************************************************************)
(* Initial state                                                           *)
(***************************************************************************)
ServerInit ==
    /\ srvPc = "idle"
    /\ req = NoRequest
    /\ providerCalls = <<>>
    /\ responses = <<>>

ClientInit ==
    /\ imageHistory = <<>>
    /\ selectedId = Null
    /\ generateBtnDisabled = FALSE
    /\ editBtnDisabled = FALSE
    /\ editUIVisible = FALSE
    /\ preview = NoImage
    /\ download = NoImage
    /\ thumbs = <<>>
    /\ statusText = ""
    /\ pending = NoRequest
    /\ referenceImages = <<>>
    /\ editReferenceImages = <<>>
    /\ localStorage = Null
    /\ now = 0
    /\ formEls = DefaultForm
    /\ referenceInput = <<>>
    /\ referenceReads = <<>>

Init == ServerInit /\ ClientInit

(***************************************************************************)
(* Server actions                                                          *)
(***************************************************************************)
\* app.post("/generate"): a request arrives and the handler runs to its 400
\* response or to its provider call
PostGenerate ==
    /\ srvPc = "idle"
    /\ \E body \in GenerateBodies :
          LET dispatch == GenerateDispatch(body)
          IN  /\ req' = [endpoint |-> "/generate", body |-> body]
              /\ responses' = IF dispatch.responded THEN <<dispatch.response>> ELSE <<>>
              /\ providerCalls' = IF dispatch.responded THEN <<>> ELSE <<dispatch.call>>
              /\ srvPc' = IF dispatch.responded THEN "responded" ELSE "awaiting"
    /\ UNCHANGED clientVars

\* app.post("/edit"), likewise
PostEdit ==
    /\ srvPc = "idle"
    /\ \E body \in EditBodies :
          LET dispatch == EditDispatch(body)
          IN  /\ req' = [endpoint |-> "/edit", body |-> body]
              /\ responses' = IF dispatch.responded THEN <<dispatch.response>> ELSE <<>>
              /\ providerCalls' = IF dispatch.responded THEN <<>> ELSE <<dispatch.call>>
              /\ srvPc' = IF dispatch.responded THEN "responded" ELSE "awaiting"
    /\ UNCHANGED clientVars

\* a handler that calls the provider a second time when the first call throws
ProviderSettles_Retry ==
    /\ srvPc = "awaiting"
    /\ \E outcome \in ProviderOutcomes :
          /\ responses' = Append(responses, Settle(req.endpoint, req.body, outcome))
          /\ providerCalls' = IF outcome.kind = "throw"
                              THEN Append(providerCalls, providerCalls[1])
                              ELSE providerCalls
    /\ srvPc' = "responded"
    /\ UNCHANGED req
    /\ UNCHANGED clientVars

\* the provider call settles and the handler runs to its end
ProviderSettles ==
    /\ srvPc = "awaiting"
    /\ \E outcome \in ProviderOutcomes :
          responses' = Append(responses, Settle(req.endpoint, req.body, outcome))
    /\ srvPc' = "responded"
    /\ UNCHANGED <<req, providerCalls>>
    /\ UNCHANGED clientVars

ServerNext == PostGenerate \/ PostEdit \/ ProviderSettles

ServerSpec == Init /\ [][ServerNext]_vars

(***************************************************************************)
(* Server: the JSON body parser in front of the handlers, and the server   *)
(* going on to its next request                                            *)
(***************************************************************************)
\* what express.json({limit: "30mb"}) refuses, with the status of its error
UnparsedBodies ==
    {[k |-> "malformed", status |-> 400], [k |-> "too large", status |-> 413]}

\* the parser passes its error on; the application installs no error handler,
\* so Express's own answers: the error's status with an HTML page, and the
\* handler of the route is not run
BodyRefused ==
    /\ srvPc = "idle"
    /\ \E endpoint \in {"/generate", "/edit"}, raw \in UnparsedBodies :
          /\ req' = [endpoint |-> endpoint, body |-> [k |-> raw.k]]
          /\ responses' = <<[status |-> raw.status, body |-> [k |-> "html"]]>>
    /\ providerCalls' = <<>>
    /\ srvPc' = "responded"
    /\ UNCHANGED clientVars

\* app.listen: the request answered, the server takes the next one
ServeNext ==
    /\ srvPc = "responded"
    /\ srvPc' = "idle"
    /\ req' = NoRequest
    /\ providerCalls' = <<>>
    /\ responses' = <<>>
    /\ UNCHANGED clientVars

HttpNext == ServerNext \/ BodyRefused \/ ServeNext

HttpSpec == Init /\ [][HttpNext]_vars


(***************************************************************************)
(* Client: the page script                                                 *)
(***************************************************************************)
\* the most nodes the history grows to
MaxHistory == 3
\* the latest time Date.now() returns
MaxNow == 1
\* the largest value of Math.floor(Math.random() * 100000): 99999 in the code
MaxRandom == 1

DigitValue ==
    ("0" :> 0) @@ ("1" :> 1) @@ ("2" :> 2) @@ ("3" :> 3) @@ ("4" :> 4) @@
    ("5" :> 5) @@ ("6" :> 6) @@ ("7" :> 7) @@ ("8" :> 8) @@ ("9" :> 9)

\* the digits a string starts with
RECURSIVE LeadingDigits(_)
LeadingDigits(cs) ==
    IF cs = <<>> \/ Head(cs) \notin DOMAIN DigitValue THEN <<>>
    ELSE <<Head(cs)>> \o LeadingDigits(Tail(cs))

RECURSIVE DecimalValue(_)
DecimalValue(ds) ==
    IF ds = <<>> THEN 0
    ELSE 10 * DecimalValue(SubSeq(ds, 1, Len(ds) - 1)) + DigitValue[ds[Len(ds)]]

\* Number.parseInt(value, 10): leading white space, a sign, then digits; NaN
\* when no digit follows
ParseInt(cs) ==
    LET t == TrimStart(cs)
        signed == t # <<>> /\ Head(t) \in {"-", "+"}
        ds == LeadingDigits(IF signed THEN Tail(t) ELSE t)
    IN  IF ds = <<>> THEN NaN
        ELSE IF signed /\ Head(t) = "-" THEN Num(0 - DecimalValue(ds))
        ELSE Num(DecimalValue(ds))

\* form: the values of sizeEl, qualityEl, formatEl and compressionEl
getSelectedSize(form) ==
    IF form.size \notin {"1024x1024", "1024x1536", "1536x1024"}
    THEN Throw("Unsupported size. Use 1024x1024, 1024x1536, or 1536x1024.")
    ELSE Return(form.size)

\* {settings, error}: Return(settings) or Throw(error)
getSelectedRenderSettings(form) ==
    LET size == getSelectedSize(form)
        output_compression == ParseInt(Chars(form.compression))
    IN  IF ~size.ok THEN size
        ELSE IF form.quality \notin {"low", "medium", "high"}
        THEN Throw("Unsupported quality. Use low, medium, or high.")
        ELSE IF form.format \notin {"jpeg", "png"}
        THEN Throw("Unsupported format. Use jpeg or png.")
        ELSE IF \/ ~NumberIsInteger(output_compression)
                \/ NumberLess(output_compression, 0)
                \/ NumberGreater(output_compression, 100)
        THEN Throw("Compression must be an integer from 0 to 100.")
        ELSE Return([size |-> Str(size.value), quality |-> Str(form.quality),
                     output_format |-> Str(form.format),
                     output_compression |-> output_compression])

\* data.b64, data.mime_type: a property the object lacks reads as undefined
Get(object, name) == IF name \in DOMAIN object THEN object[name] ELSE Undefined

\* String(v) for the values that are turned into text
JsString(v) ==
    CASE v.k = "string" -> v.s
      [] v.k = "number" -> ToString(v.tenths \div 10)
      [] OTHER -> v.k

\* localStorage.setItem(SETTINGS_STORAGE_KEY, JSON.stringify(payload)): the item
\* is a JSON text, kept as the value JSON.parse gives for it
saveSettings(form) ==
    [k |-> "json",
     value |-> [k |-> "object", size |-> Str(form.size), quality |-> Str(form.quality),
                output_format |-> Str(form.format),
                output_compression |-> Str(form.compression)]]

\* a loadSettings that restores the compression only from a JSON number
loadSettings_NumberCompression(raw, form) ==
    IF raw = Null THEN [form |-> form, storage |-> raw]
    ELSE IF raw.k = "text" \/ raw.value.k = "null" THEN [form |-> form, storage |-> Null]
    ELSE LET parsed == raw.value
             read(name) == IF parsed.k = "object" THEN Get(parsed, name) ELSE Undefined
         IN  [form |->
                 [size |-> IF IsString(read("size")) THEN read("size").s ELSE form.size,
                  quality |-> IF IsString(read("quality")) THEN read("quality").s
                              ELSE form.quality,
                  format |-> IF IsString(read("output_format"))
                             THEN read("output_format").s ELSE form.format,
                  compression |-> IF read("output_compression").k = "number"
                                  THEN JsString(read("output_compression"))
                                  ELSE form.compression],
              storage |-> raw]

\* loadSettings on the item raw and the form of the fresh page: the form and the
\* item it leaves.  An item that is not JSON makes JSON.parse throw, the JSON
\* null makes parsed.size throw; a value other than an object has no properties
loadSettings(raw, form) ==
    IF raw = Null THEN [form |-> form, storage |-> raw]
    ELSE IF raw.k = "text" \/ raw.value.k = "null" THEN [form |-> form, storage |-> Null]
    ELSE LET parsed == raw.value
             read(name) == IF parsed.k = "object" THEN Get(parsed, name) ELSE Undefined
         IN  [form |->
                 [size |-> IF IsString(read("size")) THEN read("size").s ELSE form.size,
                  quality |-> IF IsString(read("quality")) THEN read("quality").s
                              ELSE form.quality,
                  format |-> IF IsString(read("output_format"))
                             THEN read("output_format").s ELSE form.format,
                  compression |-> IF read("output_compression") \notin {Undefined, Null}
                                  THEN JsString(read("output_compression"))
                                  ELSE form.compression],
              storage |-> raw]

getFileExtensionFromMimeType(mimeType) ==
    IF mimeType = Str("image/jpeg") THEN "jpg"
    ELSE IF mimeType = Str("image/png") THEN "png"
    ELSE "bin"

\* the state selectImage and addToHistory read and write
Page ==
    [imageHistory |-> imageHistory, selectedId |-> selectedId,
     editUIVisible |-> editUIVisible, preview |-> preview, download |-> download,
     thumbs |-> thumbs]

\* imageHistory.find((entry) => entry.id === id): the position of the first
\* match, 0 when there is none
FindIndex(history, id) ==
    IF \E i \in DOMAIN history : history[i].id = id
    THEN CHOOSE i \in DOMAIN history :
             history[i].id = id /\ \A j \in 1..(i - 1) : history[j].id # id
    ELSE 0

\* a selectImage that also moves the chosen node to the front of the history
selectImage_MoveToFront(page, id) ==
    LET at == FindIndex(page.imageHistory, id)
        item == page.imageHistory[at]
        others == [i \in 1..(Len(page.imageHistory) - 1) |->
                      IF i < at THEN page.imageHistory[i] ELSE page.imageHistory[i + 1]]
    IN  IF at = 0 THEN [page EXCEPT !.selectedId = id]
        ELSE [page EXCEPT !.selectedId = id,
                          !.editUIVisible = TRUE,
                          !.imageHistory = <<item>> \o others]

\* a selectImage that never calls setEditUIVisible(true)
selectImage_NoEditUI(page, id) ==
    LET at == FindIndex(page.imageHistory, id)
        item == page.imageHistory[at]
        mimeType == OrElse(item.mimeType, Str("image/png"))
        imageDataUrl == "data:" \o JsString(mimeType) \o ";base64," \o JsString(item.b64)
    IN  IF at = 0 THEN [page EXCEPT !.selectedId = id]
        ELSE [page EXCEPT
                 !.selectedId = id,
                 !.preview = [k |-> "shown", src |-> imageDataUrl],
                 !.download = [k |-> "shown", href |-> imageDataUrl,
                               download |-> "mini-dalle-image."
                                            \o getFileExtensionFromMimeType(mimeType)],
                 !.thumbs = [i \in DOMAIN page.thumbs |->
                                [page.thumbs[i] EXCEPT
                                    !.active = (page.thumbs[i].datasetId = JsString(id))]]]

selectImage(page, id) ==
    LET at == FindIndex(page.imageHistory, id)
        item == page.imageHistory[at]
        mimeType == OrElse(item.mimeType, Str("image/png"))
        imageDataUrl == "data:" \o JsString(mimeType) \o ";base64," \o JsString(item.b64)
    IN  IF at = 0 THEN [page EXCEPT !.selectedId = id]
        ELSE [page EXCEPT
                 !.selectedId = id,
                 !.editUIVisible = TRUE,
                 !.preview = [k |-> "shown", src |-> imageDataUrl],
                 !.download = [k |-> "shown", href |-> imageDataUrl,
                               download |-> "mini-dalle-image."
                                            \o getFileExtensionFromMimeType(mimeType)],
                 !.thumbs = [i \in DOMAIN page.thumbs |->
                                [page.thumbs[i] EXCEPT
                                    !.active = (page.thumbs[i].datasetId = JsString(id))]]]

\* an addToHistory that links an edited node to the newest node of the history
\* instead of the node it is given
addToHistory_ParentNewest(page, b64, mimeType, originPrompt, parentId, id) ==
    selectImage(
        [page EXCEPT
            !.imageHistory = <<[id |-> id, b64 |-> b64, mimeType |-> mimeType,
                                originPrompt |-> originPrompt,
                                parentId |-> IF parentId = Null THEN Null
                                             ELSE page.imageHistory[1].id]>> \o @,
            !.thumbs = <<[id |-> id, datasetId |-> JsString(id), active |-> FALSE]>> \o @],
        id)

\* an addToHistory that links an edited node to the node selected when it is
\* called instead of the node it is given
addToHistory_ParentSelected(page, b64, mimeType, originPrompt, parentId, id) ==
    selectImage(
        [page EXCEPT
            !.imageHistory = <<[id |-> id, b64 |-> b64, mimeType |-> mimeType,
                                originPrompt |-> originPrompt,
                                parentId |-> IF parentId = Null THEN Null
                                             ELSE page.selectedId]>> \o @,
            !.thumbs = <<[id |-> id, datasetId |-> JsString(id), active |-> FALSE]>> \o @],
        id)

\* id is Date.now() + Math.floor(Math.random() * 100000), drawn by the caller
addToHistory(page, b64, mimeType, originPrompt, parentId, id) ==
    selectImage(
        [page EXCEPT
            !.imageHistory = <<[id |-> id, b64 |-> b64, mimeType |-> mimeType,
                                originPrompt |-> originPrompt, parentId |-> parentId]>> \o @,
            !.thumbs = <<[id |-> id, datasetId |-> JsString(id), active |-> FALSE]>> \o @],
        id)

\* the page state becomes p
Show(p) ==
    /\ imageHistory' = p.imageHistory
    /\ selectedId' = p.selectedId
    /\ editUIVisible' = p.editUIVisible
    /\ preview' = p.preview
    /\ download' = p.download
    /\ thumbs' = p.thumbs

\* a setButtons that leaves the Edit button alone
setButtons_GenerateOnly(disabled) ==
    /\ generateBtnDisabled' = disabled
    /\ editBtnDisabled' = editBtnDisabled

\* a setButtons that disables the buttons and never enables them again
setButtons_DisableOnly(disabled) ==
    /\ generateBtnDisabled' = (generateBtnDisabled \/ disabled)
    /\ editBtnDisabled' = (editBtnDisabled \/ disabled)

\* setButtons(disabled)
setButtons(disabled) ==
    /\ generateBtnDisabled' = disabled
    /\ editBtnDisabled' = disabled

\* what the user has typed and chosen when a button is clicked
PromptInputs == {"", "a red fox"}
EditPromptInputs == {"", " make it blue "}
\* the forms the user submits: images are generated with the png settings and
\* edited with the jpeg ones; each button is also clicked with an empty
\* compression field (a number input holds a number's text or nothing)
GenerateFormInputs ==
    {[size |-> "1024x1024", quality |-> "low", format |-> "png", compression |-> "80"],
     [size |-> "1024x1024", quality |-> "low", format |-> "png", compression |-> ""]}
EditFormInputs ==
    {[size |-> "1536x1024", quality |-> "high", format |-> "jpeg", compression |-> "80"],
     [size |-> "1024x1024", quality |-> "low", format |-> "jpeg", compression |-> ""]}

\* what the server answers to a request, computed by its handlers; the client
\* sees two of the provider's outcomes: an image, no image
ClientProviderOutcomes ==
    {[kind |-> "resolve", result |-> [data |-> Arr(<<Image(Str("QUJD"))>>)]],
     [kind |-> "resolve", result |-> [data |-> Arr(<<>>)]]}

ServerResponses(path, payload) ==
    LET dispatch == DispatchOf(path, payload)
    IN  IF dispatch.responded THEN {dispatch.response}
        ELSE {Settle(path, payload, o) : o \in ClientProviderOutcomes}

\* what fetch and response.json() can do: a JSON response, a response whose
\* body is not JSON, no response at all
FetchOutcomes(path, payload) ==
    {[kind |-> "json", response |-> r] : r \in ServerResponses(path, payload)}
    \cup {[kind |-> "notJson"], [kind |-> "failed"]}

\* a postJSON without the response.ok test: every JSON body is returned as data
postJSON_NoOkCheck(outcome) ==
    IF outcome.kind = "failed" THEN Throw("Failed to fetch")
    ELSE IF outcome.kind = "notJson" THEN Throw("Unexpected token < in JSON at position 0")
    ELSE Return(outcome.response.body)

\* postJSON, after its awaits: the data, or the error thrown
postJSON(outcome) ==
    IF outcome.kind = "failed" THEN Throw("Failed to fetch")
    ELSE IF outcome.kind = "notJson" THEN Throw("Unexpected token < in JSON at position 0")
    ELSE IF outcome.response.status \notin 200..299
    THEN Throw(MessageOr(outcome.response.body.error, "Request failed"))
    ELSE Return(outcome.response.body)

RequestBody(prompt, settings, imageB64, imageMimeType, references) ==
    [prompt |-> Str(prompt), size |-> settings.size, quality |-> settings.quality,
     output_format |-> settings.output_format,
     output_compression |-> settings.output_compression,
     image_b64 |-> imageB64, image_mime_type |-> imageMimeType,
     reference_images |-> IF references # <<>> THEN Arr(references) ELSE Undefined]

\* the user sets the four fields to form: a field that changes fires its change
\* listener, which is saveSettings
FillForm(form) ==
    /\ formEls' = form
    /\ localStorage' = IF form # formEls THEN saveSettings(form) ELSE localStorage

\* generateImage, up to its await
ClickGenerate ==
    /\ ~generateBtnDisabled
    /\ Len(imageHistory) < MaxHistory
    /\ \E promptValue \in PromptInputs, form \in GenerateFormInputs :
          LET prompt == StringOf(Trim(Chars(promptValue)))
              selected == getSelectedRenderSettings(form)
          IN  IF prompt = ""
              THEN /\ statusText' = "Please enter a base prompt."
                   /\ FillForm(form)
                   /\ UNCHANGED <<generateBtnDisabled, editBtnDisabled, pending>>
              ELSE IF ~selected.ok
              THEN /\ statusText' = selected.message
                   /\ FillForm(form)
                   /\ UNCHANGED <<generateBtnDisabled, editBtnDisabled, pending>>
              ELSE /\ formEls' = form
                   /\ localStorage' = saveSettings(form)
                   /\ setButtons(TRUE)
                   /\ statusText' = "Generating image..."
                   /\ pending' = [k |-> "request", path |-> "/generate", prompt |-> prompt,
                                  base |-> Null,
                                  payload |-> RequestBody(prompt, selected.value, Undefined,
                                                          Undefined, referenceImages)]
    /\ UNCHANGED <<imageHistory, selectedId, editUIVisible, preview, download, thumbs,
                   referenceImages, editReferenceImages, now>>
    /\ UNCHANGED <<referenceInput, referenceReads>>
    /\ UNCHANGED srvVars

\* editImage, up to its await
ClickEdit ==
    /\ ~editBtnDisabled
    /\ Len(imageHistory) < MaxHistory
    /\ \E promptValue \in EditPromptInputs, form \in EditFormInputs :
          LET prompt == StringOf(Trim(Chars(promptValue)))
              selected == getSelectedRenderSettings(form)
              at == FindIndex(imageHistory, selectedId)
              base == imageHistory[at]
          IN  IF at = 0
              THEN /\ statusText' = "Generate an image first, then select one to edit."
                   /\ FillForm(form)
                   /\ UNCHANGED <<generateBtnDisabled, editBtnDisabled, pending>>
              ELSE IF ~selected.ok
              THEN /\ statusText' = selected.message
                   /\ FillForm(form)
                   /\ UNCHANGED <<generateBtnDisabled, editBtnDisabled, pending>>
              ELSE IF prompt = ""
              THEN /\ statusText' = "Please enter what you want to change."
                   /\ FillForm(form)
                   /\ UNCHANGED <<generateBtnDisabled, editBtnDisabled, pending>>
              ELSE /\ formEls' = form
                   /\ localStorage' = saveSettings(form)
                   /\ setButtons(TRUE)
                   /\ statusText' = "Editing image..."
                   /\ pending' = [k |-> "request", path |-> "/edit", prompt |-> prompt,
                                  base |-> base.id,
                                  payload |-> RequestBody(prompt, selected.value, base.b64,
                                                 OrElse(base.mimeType, Str("image/png")),
                                                 editReferenceImages)]
    /\ UNCHANGED <<imageHistory, selectedId, editUIVisible, preview, download, thumbs,
                   referenceImages, editReferenceImages, now>>
    /\ UNCHANGED <<referenceInput, referenceReads>>
    /\ UNCHANGED srvVars

\* generateImage and editImage after the await: try, catch and finally
Settles(doneText) ==
    /\ \E outcome \in FetchOutcomes(pending.path, pending.payload) :
          LET data == postJSON(outcome)
          IN  IF data.ok
              THEN \E t \in now..MaxNow, random \in 0..MaxRandom :
                      /\ Show(addToHistory(Page, Get(data.value, "b64"), Get(data.value, "mime_type"),
                                           pending.prompt, pending.base, Num(t + random)))
                      /\ now' = t
                      /\ statusText' = doneText
              ELSE /\ statusText' = "Error: " \o MessageOr(data.message, "Unknown error")
                   /\ UNCHANGED <<imageHistory, selectedId, editUIVisible, preview, download,
                                  thumbs, now>>
    /\ setButtons(FALSE)
    /\ pending' = NoRequest
    /\ UNCHANGED <<referenceImages, editReferenceImages, localStorage, formEls>>
    /\ UNCHANGED <<referenceInput, referenceReads>>
    /\ UNCHANGED srvVars

GenerateSettles ==
    /\ pending.k = "request"
    /\ pending.path = "/generate"
    /\ Settles("Done.")

EditSettles ==
    /\ pending.k = "request"
    /\ pending.path = "/edit"
    /\ Settles("Edit complete.")

\* a click on a thumbnail: the listener addToHistory gave it calls selectImage(id)
ClickThumb ==
    /\ \E i \in DOMAIN thumbs : Show(selectImage(Page, thumbs[i].id))
    /\ UNCHANGED <<generateBtnDisabled, editBtnDisabled, statusText, pending,
                   referenceImages, editReferenceImages, localStorage, now, formEls>>
    /\ UNCHANGED <<referenceInput, referenceReads>>
    /\ UNCHANGED srvVars

ClientNext == ClickGenerate \/ ClickEdit \/ GenerateSettles \/ EditSettles \/ ClickThumb

ClientSpec == Init /\ [][ClientNext]_vars

\* the client with requests that settle: fetch resolves or rejects, and the code
\* after the await then runs
ClientLiveSpec ==
    /\ Init
    /\ [][ClientNext]_vars
    /\ WF_vars(GenerateSettles)
    /\ WF_vars(EditSettles)

(***************************************************************************)
(* Client: the render settings, their storage and the page reload          *)
(***************************************************************************)
\* the options of the three selects, and the texts the compression input (a
\* number input) is given
SettingValues(name) ==
    CASE name = "size" -> {"1024x1024", "1024x1536", "1536x1024"}
      [] name = "quality" -> {"low", "medium", "high"}
      [] name = "format" -> {"jpeg", "png"}
      [] name = "compression" -> {"", "0", "80", "101", "-1", "3.5"}

\* items found under the key that saveSettings did not write: a text that is not
\* JSON, the JSON null, a JSON number, an object with other kinds of fields
ForeignItems ==
    {[k |-> "text"],
     [k |-> "json", value |-> Null],
     [k |-> "json", value |-> Num(5)],
     [k |-> "json", value |-> [k |-> "object", size |-> Num(1024), quality |-> Str("high"),
                               output_compression |-> Num(50)]]}

\* the user changes one field: its change listener calls saveSettings
ChangeSetting ==
    /\ \E name \in {"size", "quality", "format", "compression"} :
          \E value \in SettingValues(name) :
             /\ value # formEls[name]
             /\ formEls' = [formEls EXCEPT ![name] = value]
             /\ localStorage' = saveSettings([formEls EXCEPT ![name] = value])
    /\ UNCHANGED <<imageHistory, selectedId, generateBtnDisabled, editBtnDisabled,
                   editUIVisible, preview, download, thumbs, statusText, pending,
                   referenceImages, editReferenceImages, now>>
    /\ UNCHANGED <<referenceInput, referenceReads>>
    /\ UNCHANGED srvVars

\* the item is written from outside the page script
StorageWritten ==
    /\ \E item \in ForeignItems : localStorage' = item
    /\ UNCHANGED <<imageHistory, selectedId, generateBtnDisabled, editBtnDisabled,
                   editUIVisible, preview, download, thumbs, statusText, pending,
                   referenceImages, editReferenceImages, now, formEls>>
    /\ UNCHANGED <<referenceInput, referenceReads>>
    /\ UNCHANGED srvVars

\* the page is loaded again: the script starts afresh on the page's HTML and
\* calls loadSettings; localStorage is what survives
Reload ==
    /\ formEls' = loadSettings(localStorage, DefaultForm).form
    /\ localStorage' = loadSettings(localStorage, DefaultForm).storage
    /\ imageHistory' = <<>>
    /\ selectedId' = Null
    /\ generateBtnDisabled' = FALSE
    /\ editBtnDisabled' = FALSE
    /\ editUIVisible' = FALSE
    /\ preview' = NoImage
    /\ download' = NoImage
    /\ thumbs' = <<>>
    /\ statusText' = ""
    /\ pending' = NoRequest
    /\ referenceImages' = <<>>
    /\ editReferenceImages' = <<>>
    /\ referenceInput' = <<>>
    /\ referenceReads' = <<>>
    /\ UNCHANGED now
    /\ UNCHANGED srvVars

SettingsNext == ChangeSetting \/ StorageWritten \/ Reload

SettingsSpec == Init /\ [][SettingsNext]_vars

(***************************************************************************)
(* Client: the reference images of the generate form.  The change listener *)
(* of the file input is async: it is split at each await of a file read.   *)
(***************************************************************************)
\* the most updateReferenceImagesFromInput calls suspended at one time
MaxReads == 2

File(name, type, content) == [name |-> name, type |-> type, content |-> content]

\* what the user picks in the file dialog: nothing, one or two images, a file of
\* another type alone and behind an image, five images
FileSelections ==
    {<<>>,
     <<File("a.png", "image/png", "QUJD")>>,
     <<File("b.jpg", "image/jpeg", "QQ==")>>,
     <<File("a.png", "image/png", "QUJD"), File("b.jpg", "image/jpeg", "QQ==")>>,
     <<File("c.gif", "image/gif", "QUJD")>>,
     <<File("a.png", "image/png", "QUJD"), File("c.gif", "image/gif", "QUJD")>>,
     [i \in 1..5 |-> File("a.png", "image/png", "QUJD")]}

\* const allowedSourceMimeTypes = new Set(["image/jpeg", "image/png"])
allowedSourceMimeTypes == {"image/jpeg", "image/png"}

\* {name: file.name, mime_type: file.type, b64: <the file read>}
ReferenceOf(file) == RefItem(Str(file.type), Str(file.content), Str(file.name))

\* updateReferenceImagesFromInput from the top of its loop, with next filled so
\* far, to its next await, its throw or its end.  input is what the file input
\* shows meanwhile; suspended and done are the suspended calls if this one
\* suspends again and if it ends.
updateReferenceImagesFromInput(files, next, input, suspended, done) ==
    IF Len(next) = Len(files)
    THEN /\ referenceImages' = next
         /\ referenceInput' = input
         /\ referenceReads' = done
         /\ UNCHANGED statusText
    ELSE IF files[Len(next) + 1].type \notin allowedSourceMimeTypes
    THEN /\ referenceImages' = <<>>
         /\ referenceInput' = <<>>
         /\ referenceReads' = done
         /\ statusText' = "Error: Unsupported file type for "
                             \o files[Len(next) + 1].name \o ". Use PNG or JPEG."
    ELSE /\ referenceReads' = suspended
         /\ referenceInput' = input
         /\ UNCHANGED <<referenceImages, statusText>>

\* the suspended calls without the i-th
WithoutRead(i) ==
    SubSeq(referenceReads, 1, i - 1) \o SubSeq(referenceReads, i + 1, Len(referenceReads))

\* the user picks files: the change listener runs updateReferenceImagesFromInput
\* to its first await
SelectReferences ==
    /\ Len(referenceReads) < MaxReads
    /\ \E files \in FileSelections :
          IF Len(files) > 4
          THEN /\ referenceImages' = <<>>
               /\ referenceInput' = <<>>
               /\ statusText' = "Error: You can upload up to 4 reference images."
               /\ UNCHANGED referenceReads
          ELSE updateReferenceImagesFromInput(files, <<>>, files,
                   Append(referenceReads, [files |-> files, next |-> <<>>]),
                   referenceReads)
    /\ UNCHANGED <<imageHistory, selectedId, generateBtnDisabled, editBtnDisabled,
                   editUIVisible, preview, download, thumbs, pending,
                   editReferenceImages, localStorage, now, formEls>>
    /\ UNCHANGED srvVars

\* a click on "Clear references"
ClearReferences ==
    /\ referenceImages' = <<>>
    /\ referenceInput' = <<>>
    /\ UNCHANGED <<imageHistory, selectedId, generateBtnDisabled, editBtnDisabled,
                   editUIVisible, preview, download, thumbs, statusText, pending,
                   editReferenceImages, localStorage, now, formEls, referenceReads>>
    /\ UNCHANGED srvVars

\* reader.onload of one suspended call: the file is pushed and the call goes on
FileRead ==
    /\ \E i \in DOMAIN referenceReads :
          LET call == referenceReads[i]
              next == Append(call.next, ReferenceOf(call.files[Len(call.next) + 1]))
          IN  updateReferenceImagesFromInput(call.files, next, referenceInput,
                  [referenceReads EXCEPT ![i].next = next], WithoutRead(i))
    /\ UNCHANGED <<imageHistory, selectedId, generateBtnDisabled, editBtnDisabled,
                   editUIVisible, preview, download, thumbs, pending,
                   editReferenceImages, localStorage, now, formEls>>
    /\ UNCHANGED srvVars

\* reader.onerror of one suspended call: the call throws, its listener reports
FileReadFails ==
    /\ \E i \in DOMAIN referenceReads :
          LET call == referenceReads[i]
          IN  /\ statusText' = "Error: Failed to read "
                                  \o call.files[Len(call.next) + 1].name
              /\ referenceReads' = WithoutRead(i)
    /\ UNCHANGED <<imageHistory, selectedId, generateBtnDisabled, editBtnDisabled,
                   editUIVisible, preview, download, thumbs, pending, referenceImages,
                   editReferenceImages, localStorage, now, formEls, referenceInput>>
    /\ UNCHANGED srvVars

ReferencesNext ==
    \/ SelectReferences
    \/ ClearReferences
    \/ FileRead
    \/ FileReadFails
    \/ ClickGenerate
    \/ GenerateSettles

ReferencesSpec == Init /\ [][ReferencesNext]_vars

(***************************************************************************)
(* Server claims.  The conditions of a claim are written from the claim's  *)
(* words, not with the handlers' own tests.                                *)
(***************************************************************************)
Handled == srvPc # "idle"

\* the request was answered 400 {error} and the provider was never called
Rejected400 ==
    /\ srvPc = "responded"
    /\ Len(responses) = 1
    /\ responses[1].status = 400
    /\ DOMAIN responses[1].body = {"error"}
    /\ providerCalls = <<>>

RejectedWith(message) == Rejected400 /\ responses[1].body.error = message

\* the request passed validation: the provider was called once
Accepted == srvPc \in {"awaiting", "responded"} /\ Len(providerCalls) = 1

PromptGiven(b) == b.prompt.k = "string" /\ b.prompt.s # ""
SizeSupported(b) == b.size \in {Str("1024x1024"), Str("1024x1536"), Str("1536x1024")}
QualitySupported(b) == b.quality \in {Str("low"), Str("medium"), Str("high")}
FormatSupported(b) == b.output_format \in {Str("jpeg"), Str("png")}
CompressionInRange(b) ==
    /\ b.output_compression.k = "number"
    /\ b.output_compression.tenths \in {10 * n : n \in 0..100}
CompressionAcceptable(b) == b.output_format = Str("png") \/ CompressionInRange(b)

ImageMimeTypes == {Str("image/png"), Str("image/jpeg")}

\* a payload that decodes to at least one byte
Decodable(v) == v.k = "string" /\ BufferFromBase64Length(v.s) > 0

WellFormedEntry(item) ==
    item.k = "object" /\ item.mime_type \in ImageMimeTypes /\ Decodable(item.b64)

ReferencesAcceptable(b) ==
    \/ b.reference_images \in {Undefined, Null}
    \/ /\ b.reference_images.k = "array"
       /\ Len(b.reference_images.items) <= 4
       /\ \A i \in DOMAIN b.reference_images.items : WellFormedEntry(b.reference_images.items[i])

SettingsAcceptable(b) ==
    PromptGiven(b) /\ SizeSupported(b) /\ QualitySupported(b) /\ FormatSupported(b)
    /\ CompressionAcceptable(b)

SourceGiven(b) == b.image_b64.k = "string" /\ b.image_b64.s # ""

MimeTypeUnspecified(b) == b.image_mime_type \in {Undefined, Null, Str("")}

\* C1: a request whose prompt is absent, empty or not a string, or whose size,
\* quality or output_format is not a supported value, is answered 400 {error}
\* on both endpoints, and the provider is not called.
C1_BadFieldRejected ==
    (Handled /\ ~(PromptGiven(req.body) /\ SizeSupported(req.body)
                  /\ QualitySupported(req.body) /\ FormatSupported(req.body)))
        => Rejected400

C1_Witness ==
    /\ Rejected400
    /\ req.endpoint = "/edit"
    /\ PromptGiven(req.body) /\ QualitySupported(req.body) /\ FormatSupported(req.body)
    /\ req.body.size = Str("512x512")
    /\ SourceGiven(req.body)

\* C2: with output_format jpeg a request is accepted only if output_compression
\* is an integer in [0,100], and the accepted value is forwarded to the provider;
\* with output_format png every output_compression is accepted (the request fares
\* exactly as it does without the field) and the provider payload has no
\* output_compression field.
C2_CompressionRule ==
    /\ (Handled /\ req.body.output_format = Str("jpeg") /\ ~CompressionInRange(req.body))
           => Rejected400
    /\ (Handled /\ req.body.output_format = Str("jpeg"))
           => \A i \in DOMAIN providerCalls :
                 /\ "output_compression" \in DOMAIN providerCalls[i].payload
                 /\ providerCalls[i].payload.output_compression = req.body.output_compression
    /\ (Handled /\ req.body.output_format = Str("png"))
           => /\ \A i \in DOMAIN providerCalls :
                    "output_compression" \notin DOMAIN providerCalls[i].payload
              /\ DispatchOf(req.endpoint, req.body)
                    = DispatchOf(req.endpoint, [req.body EXCEPT !.output_compression = Undefined])
              /\ (SettingsAcceptable(req.body) /\ req.endpoint = "/generate"
                     /\ ReferencesAcceptable(req.body)) => Accepted

C2_Witness ==
    /\ srvPc = "awaiting"
    /\ req.body.output_format = Str("png")
    /\ req.body.output_compression = Str("80")
    /\ "output_compression" \notin DOMAIN providerCalls[1].payload

\* C3: a reference_images array of more than 4 entries is answered 400 without a
\* provider call; with every other field valid, an array of 0 to 4 well-formed
\* entries is accepted.
C3_ReferenceCount ==
    /\ (Handled /\ req.body.reference_images.k = "array"
           /\ Len(req.body.reference_images.items) > 4)
           => Rejected400
    /\ (Handled /\ SettingsAcceptable(req.body)
           /\ (req.endpoint = "/edit" =>
                  Decodable(req.body.image_b64)
                  /\ (MimeTypeUnspecified(req.body) \/ req.body.image_mime_type \in ImageMimeTypes))
           /\ req.body.reference_images.k = "array"
           /\ ReferencesAcceptable(req.body))
           => Accepted

C3_Witness ==
    /\ srvPc = "awaiting"
    /\ req.body.reference_images.k = "array"
    /\ Len(req.body.reference_images.items) = 4

\* the source image of an /edit request is one the handler can use
SourceAcceptable(b) ==
    Decodable(b.image_b64)
    /\ (MimeTypeUnspecified(b) \/ b.image_mime_type \in ImageMimeTypes)

\* every field but reference_images is valid
ValidButReferences(endpoint, b) ==
    SettingsAcceptable(b) /\ (endpoint = "/edit" => SourceAcceptable(b))

\* the positions of the entries whose mime_type is unsupported or whose payload
\* does not decode to bytes
BadEntries(b) ==
    {i \in DOMAIN b.reference_images.items :
        /\ b.reference_images.items[i].k = "object"
        /\ ~WellFormedEntry(b.reference_images.items[i])}

\* the request body with reference entries i and j exchanged
Exchanged(b, i, j) ==
    [b EXCEPT !.reference_images.items =
        [n \in DOMAIN @ |-> IF n = i THEN @[j] ELSE IF n = j THEN @[i] ELSE @[n]]]

\* C4: a reference entry with an unsupported mime_type or an undecodable payload
\* makes the request fail with 400, and the error identifies the offending
\* entry: moving the bad entry to another position gives a different message.
C4_OffendingEntryIdentified ==
    (Handled /\ ValidButReferences(req.endpoint, req.body)
        /\ req.body.reference_images.k = "array"
        /\ Len(req.body.reference_images.items) <= 4
        /\ (\A i \in DOMAIN req.body.reference_images.items :
               req.body.reference_images.items[i].k = "object")
        /\ BadEntries(req.body) # {})
        => /\ Rejected400
           /\ \A i \in BadEntries(req.body) :
                 \A j \in DOMAIN req.body.reference_images.items \ BadEntries(req.body) :
                    DispatchOf(req.endpoint, Exchanged(req.body, i, j)).response.body.error
                        # responses[1].body.error

\* C5: an /edit request without image_b64 (absent, empty or not a string), every
\* other field being valid, is answered 400 "Missing source image" and the
\* provider is not called.
C5_MissingSourceRejected ==
    (Handled /\ req.endpoint = "/edit" /\ ~SourceGiven(req.body)
        /\ SettingsAcceptable(req.body) /\ ReferencesAcceptable(req.body)
        /\ (MimeTypeUnspecified(req.body) \/ req.body.image_mime_type \in ImageMimeTypes))
        => RejectedWith("Missing source image")

C5_Witness ==
    /\ RejectedWith("Missing source image")
    /\ req.body.image_b64 = Str("")
    /\ SettingsAcceptable(req.body)

\* the file handed to the provider as the source image of an /edit call
SourceFileOf(call) ==
    IF call.payload.image.k = "array"
    THEN call.payload.image.items[1]
    ELSE call.payload.image

NodeIds == {Num(n) : n \in 0..(MaxNow + MaxRandom)}

\* a step in which a request came back with an image
Succeeded ==
    /\ pending.k = "request"
    /\ pending' = NoRequest
    /\ statusText' \in {"Done.", "Edit complete."}

\* following parentId pointers from position i, as find() resolves them, ends at
\* a node without a parent
RECURSIVE ReachesRoot(_, _, _)
ReachesRoot(history, i, steps) ==
    IF history[i].parentId = Null THEN TRUE
    ELSE IF steps = 0 THEN FALSE
    ELSE LET parent == FindIndex(history, history[i].parentId)
         IN  parent # 0 /\ ReachesRoot(history, parent, steps - 1)

\* each successful response puts exactly one node in front of the others, whose
\* parentId is the value passed (null for generate, the base's id for edit), and
\* selects it; no other step changes the history
C7_AddStep ==
    /\ Succeeded =>
          /\ Len(imageHistory') = Len(imageHistory) + 1
          /\ SubSeq(imageHistory', 2, Len(imageHistory')) = imageHistory
          /\ imageHistory'[1].parentId
                = (IF pending.path = "/generate" THEN Null ELSE pending.base)
          /\ selectedId' = imageHistory'[1].id
          /\ FindIndex(imageHistory', selectedId') = 1
    /\ ~Succeeded => imageHistory' = imageHistory

C7_Lineage ==
    \A i \in DOMAIN imageHistory : ReachesRoot(imageHistory, i, Len(imageHistory))

\* C7: after N successful responses imageHistory holds exactly N nodes, newest
\* first, the newest added node is the selected one, each node's parentId is the
\* value passed at its creation, and following parentId pointers from any node
\* of a chain reaches the chain's root.
C7_HistoryChain == [][C7_AddStep]_vars /\ []C7_Lineage

\* the request in flight is an edit of the node at position i: its image was sent
EditOf(i) ==
    /\ pending.k = "request"
    /\ pending.path = "/edit"
    /\ pending.payload.image_b64 = imageHistory[i].b64
    /\ pending.payload.image_mime_type = imageHistory[i].mimeType

\* C8: with history [A, B(parent=A)], an edit of A that succeeds adds a node D
\* with parentId = A.id; B and D are then both in the history, each with
\* parentId = A.id, and D is the selected node.
C8_Branching ==
    [][(/\ Len(imageHistory) = 2
        /\ imageHistory[2].parentId = Null
        /\ imageHistory[1].parentId = imageHistory[2].id
        /\ imageHistory[1].mimeType # imageHistory[2].mimeType
        /\ EditOf(2)
        /\ Succeeded)
       => /\ Len(imageHistory') = 3
          /\ imageHistory'[3] = imageHistory[2]
          /\ imageHistory'[2] = imageHistory[1]
          /\ imageHistory'[1].parentId = imageHistory[2].id
          /\ imageHistory'[2].parentId = imageHistory[2].id
          /\ selectedId' = imageHistory'[1].id
          /\ FindIndex(imageHistory', selectedId') = 1]_vars

C8_Witness ==
    /\ Len(imageHistory) = 3
    /\ imageHistory[3].parentId = Null
    /\ imageHistory[2].parentId = imageHistory[3].id
    /\ imageHistory[1].parentId = imageHistory[3].id
    /\ Cardinality({imageHistory[i].id : i \in 1..3}) = 3
    /\ selectedId = imageHistory[1].id
    /\ statusText = "Edit complete."

\* C9: selectImage(id) applied twice gives the selectedId, preview and download
\* of one application, and no application changes imageHistory.
C9_SelectIdempotent ==
    \A id \in NodeIds :
        LET once == selectImage(Page, id)
            twice == selectImage(once, id)
        IN  /\ twice.selectedId = once.selectedId
            /\ twice.preview = once.preview
            /\ twice.download = once.download
            /\ once.imageHistory = imageHistory
            /\ twice.imageHistory = imageHistory

\* an older node has been selected by a click on its thumbnail
C9_Witness ==
    /\ Len(imageHistory) >= 2
    /\ FindIndex(imageHistory, selectedId) = 2
    /\ imageHistory[1].id # selectedId
    /\ preview.src = "data:image/png;base64,QUJD"
    /\ selectImage(Page, selectedId) = Page

\* the node editImage would take as base: imageHistory.find by selectedId
EditBase(page) == FindIndex(page.imageHistory, page.selectedId)

\* C10: selectImage(id) with an id that matches no node leaves selectedId, the
\* preview, the download link and the edit base as they were.
C10_UnknownIdNoEffect ==
    \A id \in NodeIds :
        FindIndex(imageHistory, id) = 0
            => LET after == selectImage(Page, id)
               IN  /\ after.selectedId = selectedId
                   /\ after.preview = preview
                   /\ after.download = download
                   /\ EditBase(after) = EditBase(Page)

\* the positions of the nodes whose id is id
NodesWithId(id) == {i \in DOMAIN imageHistory : imageHistory[i].id = id}

\* what the preview shows when the node at position i is displayed
PreviewOf(i) ==
    [k |-> "shown",
     src |-> "data:" \o imageHistory[i].mimeType.s \o ";base64," \o imageHistory[i].b64.s]

\* C11: with an empty history selectedId is null and nothing is shown; with a
\* non-empty history selectedId is the id of exactly one node, and that node is
\* the one in the preview and the base the next edit takes.
C11_OneSelected ==
    /\ imageHistory = <<>> => (selectedId = Null /\ preview = NoImage /\ EditBase(Page) = 0)
    /\ imageHistory # <<>> =>
          /\ Cardinality(NodesWithId(selectedId)) = 1
          /\ \A i \in NodesWithId(selectedId) :
                 preview = PreviewOf(i) /\ EditBase(Page) = i

\* C12: no two nodes of imageHistory have the same id.
C12_IdsUnique ==
    \A i, j \in DOMAIN imageHistory : i # j => imageHistory[i].id # imageHistory[j].id

\* a step keeps every node it finds, unchanged and in the same order, behind the
\* nodes it adds
C13_AppendOnly ==
    /\ Len(imageHistory') >= Len(imageHistory)
    /\ SubSeq(imageHistory', Len(imageHistory') - Len(imageHistory) + 1, Len(imageHistory'))
          = imageHistory

\* a node's parentId designates a node that is present, and only nodes created
\* before it: the pointers form a forest
C13_ParentsOlder ==
    \A i \in DOMAIN imageHistory :
        imageHistory[i].parentId # Null =>
            /\ NodesWithId(imageHistory[i].parentId) # {}
            /\ \A j \in NodesWithId(imageHistory[i].parentId) : j > i

\* C13: no action removes a node or changes a node's id, b64, mimeType,
\* originPrompt or parentId, and every non-null parentId designates a node that
\* is present and was created before the node that carries it, so that parent
\* pointers form a forest without cycles.
C13_AppendOnlyForest == [][C13_AppendOnly]_vars /\ []C13_ParentsOlder

\* a step in which the outstanding request settles
Settled == pending.k = "request" /\ pending' = NoRequest

\* C14: a request that fails only changes the status text: the step that settles
\* it without a success message leaves imageHistory, selectedId, the preview and
\* the download link as they are; while the request is outstanding nothing but
\* the user's selections changes, and never imageHistory; and a node is added
\* only with the image of a successful response.
C14_FailureLeavesHistory ==
    [][/\ (Settled /\ ~Succeeded) =>
              /\ imageHistory' = imageHistory
              /\ selectedId' = selectedId
              /\ preview' = preview
              /\ download' = download
              /\ thumbs' = thumbs
       /\ (pending.k = "request" /\ ~Settled) => imageHistory' = imageHistory
       /\ imageHistory' # imageHistory =>
              /\ Succeeded
              /\ Len(imageHistory') = Len(imageHistory) + 1
              /\ imageHistory'[1].b64.k = "string"
              /\ imageHistory'[1].b64.s # ""]_vars

\* an edit that the server answered 502 has settled, the history still there
C14_Witness ==
    /\ pending = NoRequest
    /\ statusText = "Error: No edited image returned by API"
    /\ Len(imageHistory) = 1
    /\ selectedId = imageHistory[1].id
    /\ preview = PreviewOf(1)

\* C15: at most one request is outstanding: while one is, both buttons are
\* disabled, and no step replaces the outstanding request by another one.
C15_SingleOutstanding ==
    [][/\ pending.k = "request" => (generateBtnDisabled /\ editBtnDisabled)
       /\ pending'.k = "request" => (generateBtnDisabled' /\ editBtnDisabled')
       /\ (pending.k = "request" /\ pending'.k = "request") => pending' = pending]_vars

\* an edit is outstanding and a thumbnail has been clicked meanwhile
C15_Witness ==
    /\ pending.k = "request"
    /\ pending.path = "/edit"
    /\ generateBtnDisabled /\ editBtnDisabled
    /\ Len(imageHistory) = 2
    /\ selectedId # pending.base

\* the two states of the client
Empty == imageHistory = <<>>
HasSelection == imageHistory # <<>>

\* in Empty the edit action is unavailable, in HasSelection it is there
C16_States ==
    /\ Empty => /\ ~editUIVisible
                /\ selectedId = Null
                /\ EditBase(Page) = 0
                /\ ~(pending.k = "request" /\ pending.path = "/edit")
    /\ HasSelection => /\ editUIVisible
                       /\ EditBase(Page) # 0
                       /\ pending.k = "none" => ~editBtnDisabled

C16_Transitions ==
    /\ (Empty /\ HasSelection') => (Succeeded /\ pending.path = "/generate")
    /\ (Empty /\ Succeeded) => HasSelection'
    /\ Succeeded => /\ HasSelection'
                    /\ Len(imageHistory') = Len(imageHistory) + 1
                    /\ EditBase(Page)' = 1
    /\ HasSelection => HasSelection'

\* C16: the client starts in Empty, where the edit UI is hidden and no edit is
\* dispatched; the first successful generate moves it to HasSelection, where the
\* edit action is available; every later successful generate or edit keeps it
\* there with the new node selected; nothing moves it back to Empty.
C16_StateMachine == Empty /\ [][C16_Transitions]_vars /\ []C16_States

\* HasSelection after a generate and a later edit
C16_Witness ==
    /\ HasSelection
    /\ editUIVisible
    /\ Len(imageHistory) = 2
    /\ statusText = "Edit complete."
    /\ EditBase(Page) = 1

(***************************************************************************)
(* Server claims: the provider call and the response                       *)
(***************************************************************************)
\* the first entry of the provider's result carries a base64 image
FirstHasImage(result) ==
    /\ result.data.k = "array"
    /\ Len(result.data.items) >= 1
    /\ result.data.items[1].b64_json.k = "string"
    /\ result.data.items[1].b64_json.s # ""

NoImageMessages == {"No image returned by API", "No edited image returned by API"}

\* the response the handler gives to each outcome of its provider call
C17_Outcomes ==
    srvPc = "awaiting" =>
        \A o \in ProviderOutcomes :
            LET r == Settle(req.endpoint, req.body, o)
            IN  /\ o.kind = "throw" =>
                      /\ r.status = 500
                      /\ DOMAIN r.body = {"error"}
                      /\ r.body.error = formatOpenAIError(o.error,
                                            IF req.endpoint = "/generate"
                                            THEN "Image generation failed"
                                            ELSE "Image edit failed")
                      /\ r.body.error \notin NoImageMessages \cup {""}
                /\ (o.kind = "resolve" /\ ~FirstHasImage(o.result)) =>
                      /\ r.status = 502
                      /\ DOMAIN r.body = {"error"}
                      /\ r.body.error \in NoImageMessages
                /\ (o.kind = "resolve" /\ FirstHasImage(o.result)) =>
                      /\ r.status = 200
                      /\ r.body.b64 = o.result.data.items[1].b64_json
                /\ r.status = 200 => (o.kind = "resolve" /\ FirstHasImage(o.result))

\* a response sent without a provider call is a 400; one sent after the call is
\* the response to one of its outcomes, and never a 400
C17_Responses ==
    /\ (srvPc' = "responded" /\ providerCalls' = <<>>) =>
          (Len(responses') = 1 /\ responses'[1].status = 400)
    /\ (srvPc = "awaiting" /\ srvPc' = "responded") =>
          /\ Len(responses') = 1
          /\ \E o \in ProviderOutcomes :
                 responses'[1] = Settle(req.endpoint, req.body, o)
          /\ responses'[1].status \in {200, 500, 502}

\* C17: on both endpoints a validation failure is answered 400, a provider result
\* whose first entry has no base64 image 502 with a "no image returned" message,
\* a provider call that throws 500 with the formatted provider message; 200 with
\* b64 is sent only when the first result entry holds an image.
C17_StatusMapping == []C17_Outcomes /\ [][C17_Responses]_vars

C17_Witness ==
    /\ srvPc = "responded"
    /\ req.endpoint = "/edit"
    /\ Len(providerCalls) = 1
    /\ responses[1].status = 502
    /\ responses[1].body.error = "No edited image returned by API"

\* the request passes validation: every field the endpoint reads is acceptable
ValidRequest(endpoint, b) ==
    ValidButReferences(endpoint, b) /\ ReferencesAcceptable(b)

C18_Calls ==
    /\ Len(providerCalls) <= 1
    /\ \A i \in DOMAIN providerCalls :
          providerCalls[i].operation \in {"images.generate", "images.edit"}
    /\ (Handled /\ ValidRequest(req.endpoint, req.body)) => Len(providerCalls) = 1
    /\ (Handled /\ ~ValidRequest(req.endpoint, req.body)) => Rejected400
    /\ (srvPc = "responded" /\ responses[1].status = 400) => providerCalls = <<>>

\* the call is made when the request is handled and at no later step
C18_NoLaterCall ==
    providerCalls' # providerCalls => (srvPc = "idle" /\ providerCalls = <<>>)

\* C18: a request that passes validation makes exactly one provider call, to
\* images.generate or to images.edit, which is not repeated when it fails; a
\* request that fails validation makes none.
C18_ExactlyOneCall == []C18_Calls /\ [][C18_NoLaterCall]_vars

\* the one call has thrown and the request was answered 500
C18_Witness ==
    /\ srvPc = "responded"
    /\ responses[1].status = 500
    /\ Len(providerCalls) = 1
    /\ providerCalls[1].operation = "images.generate"

\* the reference entries of the request, in the order received
ReferencesOf(b) ==
    IF b.reference_images.k = "array" THEN b.reference_images.items ELSE <<>>

\* the images a provider call is given, in order: none, one file, or a list
ImageInputs(call) ==
    IF "image" \notin DOMAIN call.payload THEN <<>>
    ELSE IF call.payload.image.k = "array" THEN call.payload.image.items
    ELSE <<call.payload.image>>

\* the file is the image of the entry: its type and its decoded data
FileOfEntry(file, mimeType, b64) ==
    /\ file.k = "file"
    /\ file.type = mimeType
    /\ file.bytes = Base64Data(Chars(b64.s))

\* C19: a valid /generate request with at least one reference image calls
\* images.edit with the references, in the order received, as its image input;
\* one without reference images (absent, null or an empty array) calls
\* images.generate with no image input.
C19_GenerateWithReferences ==
    (Handled /\ req.endpoint = "/generate" /\ ValidRequest(req.endpoint, req.body)) =>
        LET refs == ReferencesOf(req.body)
            call == providerCalls[1]
        IN  /\ Len(providerCalls) = 1
            /\ refs # <<>> =>
                  /\ call.operation = "images.edit"
                  /\ Len(ImageInputs(call)) = Len(refs)
                  /\ \A i \in DOMAIN refs :
                         FileOfEntry(ImageInputs(call)[i], refs[i].mime_type, refs[i].b64)
            /\ refs = <<>> =>
                  /\ call.operation = "images.generate"
                  /\ "image" \notin DOMAIN call.payload

\* two different references, handed over in the order received
C19_Witness ==
    /\ srvPc = "awaiting"
    /\ req.endpoint = "/generate"
    /\ Len(ReferencesOf(req.body)) = 2
    /\ ReferencesOf(req.body)[1].mime_type = Str("image/jpeg")
    /\ ReferencesOf(req.body)[2].mime_type = Str("image/png")
    /\ providerCalls[1].operation = "images.edit"
    /\ ImageInputs(providerCalls[1])[1].type = Str("image/jpeg")

\* C20: a valid /edit request with k >= 1 reference images gives the provider
\* an ordered list of k+1 images, the source image first and then the references
\* in the order received; without reference images the image input is the
\* source image alone.
C20_EditImageList ==
    (Handled /\ req.endpoint = "/edit" /\ ValidRequest(req.endpoint, req.body)) =>
        LET refs == ReferencesOf(req.body)
            call == providerCalls[1]
            sourceType == IF MimeTypeUnspecified(req.body) THEN Str("image/png")
                          ELSE req.body.image_mime_type
        IN  /\ Len(providerCalls) = 1
            /\ call.operation = "images.edit"
            /\ Len(ImageInputs(call)) = Len(refs) + 1
            /\ FileOfEntry(ImageInputs(call)[1], sourceType, req.body.image_b64)
            /\ \A i \in DOMAIN refs :
                   FileOfEntry(ImageInputs(call)[i + 1], refs[i].mime_type, refs[i].b64)
            /\ refs # <<>> => call.payload.image.k = "array"
            /\ refs = <<>> => call.payload.image.k = "file"

\* a png source followed by two different references
C20_Witness ==
    /\ srvPc = "awaiting"
    /\ req.endpoint = "/edit"
    /\ Len(ReferencesOf(req.body)) = 2
    /\ ReferencesOf(req.body)[1].mime_type = Str("image/jpeg")
    /\ ReferencesOf(req.body)[2].mime_type = Str("image/png")
    /\ Len(ImageInputs(providerCalls[1])) = 3
    /\ ImageInputs(providerCalls[1])[2].type = Str("image/jpeg")

\* some entry of the provider's result carries a base64 image
SomeHasImage(result) ==
    /\ result.data.k = "array"
    /\ \E i \in DOMAIN result.data.items :
          /\ result.data.items[i].b64_json.k = "string"
          /\ result.data.items[i].b64_json.s # ""

\* the 200 response the claim describes, for the result of the provider call
ImageAnswer(r, result) ==
    /\ r.status = 200
    /\ DOMAIN r.body = {"b64", "mime_type"}
    /\ r.body.b64 = result.data.items[1].b64_json
    /\ req.body.output_format = Str("png") => r.body.mime_type = Str("image/png")
    /\ req.body.output_format = Str("jpeg") => r.body.mime_type = Str("image/jpeg")

\* C21 as stated: a valid request whose provider call returns at least one
\* entry with a base64 image is answered 200 {b64, mime_type}, b64 the first
\* entry's payload, mime_type following output_format.
C21_AnyEntryImage ==
    (srvPc = "awaiting" /\ ValidRequest(req.endpoint, req.body)) =>
        \A o \in ProviderOutcomes :
            (o.kind = "resolve" /\ SomeHasImage(o.result)) =>
                ImageAnswer(Settle(req.endpoint, req.body, o), o.result)

\* C21, amended: a valid request whose provider call returns a result whose
\* first entry has a base64 image is answered 200 {b64, mime_type}, b64 that
\* entry's payload unchanged, mime_type image/png for png and image/jpeg for
\* jpeg whatever the types of the source and reference images; an image in a
\* later entry only is answered 502.
C21_FirstEntryImage ==
    /\ (srvPc = "awaiting" /\ ValidRequest(req.endpoint, req.body)) =>
          \A o \in ProviderOutcomes :
              /\ (o.kind = "resolve" /\ FirstHasImage(o.result)) =>
                    ImageAnswer(Settle(req.endpoint, req.body, o), o.result)
              /\ (o.kind = "resolve" /\ SomeHasImage(o.result) /\ ~FirstHasImage(o.result)) =>
                    Settle(req.endpoint, req.body, o).status = 502
    /\ (srvPc = "responded" /\ responses[1].status = 200) =>
          /\ DOMAIN responses[1].body = {"b64", "mime_type"}
          /\ responses[1].body.mime_type
                = (IF req.body.output_format = Str("jpeg") THEN Str("image/jpeg")
                   ELSE Str("image/png"))

\* an edit of a png source with a jpeg reference, rendered as jpeg: the first of
\* two returned images is sent as image/jpeg
C21_Witness ==
    /\ srvPc = "responded"
    /\ req.endpoint = "/edit"
    /\ req.body.image_mime_type = Str("image/png")
    /\ req.body.output_format = Str("jpeg")
    /\ responses[1].status = 200
    /\ responses[1].body = [b64 |-> Str("REVG"), mime_type |-> Str("image/jpeg")]

\* the messages of the reference_images check and of the source image checks
ReferenceMessages ==
    {"reference_images must be an array.", "You can upload up to 4 reference images.",
     "Each reference image must be an object.", "Missing source image data.",
     "Unsupported source image type. Use PNG or JPEG.", "Invalid source image data."}

SourceMessages ==
    {"Missing source image", "Missing source image data.",
     "Unsupported source image type. Use PNG or JPEG.", "Invalid source image data."}

\* the messages the first failing check may give, the checks taken in the order
\* prompt, size, quality, output_format, output_compression, reference_images;
\* no message when every check passes
FirstFailing(b) ==
    IF ~PromptGiven(b) THEN {"Missing prompt"}
    ELSE IF ~SizeSupported(b)
    THEN {"Unsupported size. Use 1024x1024, 1024x1536, or 1536x1024."}
    ELSE IF ~QualitySupported(b) THEN {"Unsupported quality. Use low, medium, or high."}
    ELSE IF ~FormatSupported(b) THEN {"Unsupported format. Use jpeg or png."}
    ELSE IF ~CompressionAcceptable(b) THEN {"Compression must be an integer from 0 to 100."}
    ELSE IF ~ReferencesAcceptable(b) THEN ReferenceMessages
    ELSE {}

\* the messages of the failing checks that come before the reference check
EarlierMessages(b) ==
    (IF ~PromptGiven(b) THEN {"Missing prompt"} ELSE {})
    \cup (IF ~SizeSupported(b)
          THEN {"Unsupported size. Use 1024x1024, 1024x1536, or 1536x1024."} ELSE {})
    \cup (IF ~QualitySupported(b) THEN {"Unsupported quality. Use low, medium, or high."} ELSE {})
    \cup (IF ~FormatSupported(b) THEN {"Unsupported format. Use jpeg or png."} ELSE {})
    \cup (IF FormatSupported(b) /\ ~CompressionAcceptable(b)
          THEN {"Compression must be an integer from 0 to 100."} ELSE {})

\* C22: on /generate the error is that of the first failing check in the order
\* prompt, size, quality, output_format, output_compression, reference_images,
\* the messages of different checks being different; on /edit with a usable
\* source image the same holds, and with an unusable one the request is refused
\* with the message of the source check or of a failing check before it.
C22_FirstFailingCheck ==
    /\ ReferenceMessages \cap {"Missing prompt",
                                "Unsupported size. Use 1024x1024, 1024x1536, or 1536x1024.",
                                "Unsupported quality. Use low, medium, or high.",
                                "Unsupported format. Use jpeg or png.",
                                "Compression must be an integer from 0 to 100."} = {}
    /\ (Handled /\ (req.endpoint = "/edit" => SourceAcceptable(req.body))) =>
          IF FirstFailing(req.body) = {} THEN Accepted
          ELSE Rejected400 /\ responses[1].body.error \in FirstFailing(req.body)
    /\ (Handled /\ req.endpoint = "/edit" /\ ~SourceAcceptable(req.body)) =>
          /\ Rejected400
          /\ responses[1].body.error \in SourceMessages \cup EarlierMessages(req.body)

\* size and quality are both unsupported and the size is reported
C22_Witness ==
    /\ Rejected400
    /\ req.endpoint = "/generate"
    /\ ~SizeSupported(req.body) /\ ~QualitySupported(req.body)
    /\ responses[1].body.error = "Unsupported size. Use 1024x1024, 1024x1536, or 1536x1024."

(***************************************************************************)
(* Client claims: the render settings                                      *)
(***************************************************************************)
\* the item holds the four current selections
StoredIsCurrent ==
    /\ localStorage # Null
    /\ localStorage.k = "json"
    /\ localStorage.value = [k |-> "object",
                             size |-> [k |-> "string", s |-> formEls.size],
                             quality |-> [k |-> "string", s |-> formEls.quality],
                             output_format |-> [k |-> "string", s |-> formEls.format],
                             output_compression |-> [k |-> "string", s |-> formEls.compression]]

SettingsBody(form) ==
    [size |-> Str(form.size), quality |-> Str(form.quality),
     output_format |-> Str(form.format),
     output_compression |-> IF ParseInt(Chars(form.compression)) = NaN THEN Null
                            ELSE ParseInt(Chars(form.compression))]

\* C23: the page's getSelectedRenderSettings accepts the selections of the form
\* if and only if the server's checks of size, quality, output_format and
\* output_compression accept them.
C23_ValidatorsAgree ==
    getSelectedRenderSettings(formEls).ok <=> (SettingsError(SettingsBody(formEls)) = "")

\* C24: the page asks for an integer compression in [0,100] only when the format
\* is jpeg: a click is refused for its compression field only with jpeg, a
\* dispatched jpeg request carries an integer in [0,100], and a dispatched png
\* request carries no output_compression.
C24_PngIgnoresCompression ==
    /\ statusText = "Compression must be an integer from 0 to 100." => formEls.format = "jpeg"
    /\ (pending.k = "request" /\ pending.payload.output_format = Str("jpeg")) =>
          CompressionInRange(pending.payload)
    /\ (pending.k = "request" /\ pending.payload.output_format = Str("png")) =>
          pending.payload.output_compression = Undefined

(***************************************************************************)
(* Server claims: every request is answered                                *)
(***************************************************************************)
\* C25: a request is never answered twice and is answered once its handling
\* ends; every response with a non-2xx status is a JSON object {error: message}
\* with a message; the server is always waiting for a request, awaiting the
\* provider or done with a request it can follow with the next one.
C25_OneStructuredResponse ==
    /\ srvPc \in {"idle", "awaiting", "responded"}
    /\ Len(responses) <= 1
    /\ srvPc = "responded" => Len(responses) = 1
    /\ \A i \in DOMAIN responses :
          responses[i].status \notin 200..299 =>
              /\ DOMAIN responses[i].body = {"error"}
              /\ responses[i].body.error # ""

(***************************************************************************)
(* C27: the text formatOpenAIError composes                                *)
(***************************************************************************)
RetryGuidance ==
    " If this prompt is benign, retry once with simpler wording. If it repeats, share the Request ID with OpenAI support."

\* the provider's message, or the fallback where the error carries none
MessageText(error, fallbackMessage) ==
    IF Truthy(error.error_message) THEN error.error_message.s
    ELSE IF Truthy(error.message) THEN error.message.s
    ELSE fallbackMessage

\* the request id of the error, from the field or from a header
RequestIdOf(error) ==
    IF Truthy(error.request_id) THEN error.request_id
    ELSE IF Truthy(error.header_request_id) THEN error.header_request_id
    ELSE IF Truthy(error.response_header_request_id)
    THEN error.response_header_request_id
    ELSE Undefined

\* "HTTP <status>." if a status is present, the message, "Request ID: <id>." if
\* an id is present, joined by one space
ComposedText(error, fallbackMessage) ==
    LET head == IF Truthy(error.status)
                THEN "HTTP " \o ToString(error.status.tenths \div 10) \o ". "
                ELSE ""
        tail == IF Truthy(RequestIdOf(error))
                THEN " Request ID: " \o RequestIdOf(error).s \o "."
                ELSE ""
    IN  head \o MessageText(error, fallbackMessage) \o tail

\* the message texts of the model that contain "safety" or "policy violation",
\* in any letter case
MessageMentionsSafety(message) ==
    message \in {"Your request was rejected by the safety system.",
                 "400 Your request was rejected by the safety system.",
                 "Content Policy Violation detected."}

FallbackOf(endpoint) ==
    IF endpoint = "/generate" THEN "Image generation failed" ELSE "Image edit failed"

\* the text is the composition, with or without the guidance after it
C27_Composition ==
    srvPc = "awaiting" =>
        \A e \in ProviderErrors :
            formatOpenAIError(e, FallbackOf(req.endpoint))
                \in {ComposedText(e, FallbackOf(req.endpoint)),
                     ComposedText(e, FallbackOf(req.endpoint)) \o RetryGuidance}

\* C27: formatOpenAIError returns "HTTP <status>." (only with a status), the
\* provider's message or the fallback, and "Request ID: <id>." (only with an id),
\* and appends the retry guidance exactly when the provider's message text
\* contains "safety" or "policy violation".
C27_GuidanceIffMessageMentionsSafety ==
    srvPc = "awaiting" =>
        \A e \in ProviderErrors :
            formatOpenAIError(e, FallbackOf(req.endpoint)) =
                ComposedText(e, FallbackOf(req.endpoint))
                \o (IF MessageMentionsSafety(MessageText(e, FallbackOf(req.endpoint)))
                    THEN RetryGuidance ELSE "")

(***************************************************************************)
(* C28: the parent of an edited node                                       *)
(***************************************************************************)
\* the step dispatches an edit: its base is the node selected at that moment
C28_Dispatch ==
    (pending.k = "none" /\ pending'.k = "request" /\ pending'.path = "/edit") =>
        /\ FindIndex(imageHistory, selectedId) # 0
        /\ pending'.base = selectedId
        /\ pending'.payload.image_b64 = imageHistory[FindIndex(imageHistory, selectedId)].b64
        /\ selectedId' = selectedId

\* while the edit is outstanding its base stays, whatever is selected meanwhile
C28_Outstanding ==
    (pending.k = "request" /\ pending'.k = "request") => pending'.base = pending.base

\* the edit completes with a new node: its parent is the base of the dispatch,
\* and the new node is the selected one
C28_Completion ==
    (pending.k = "request" /\ pending.path = "/edit"
        /\ Len(imageHistory') = Len(imageHistory) + 1) =>
        /\ imageHistory'[1].parentId = pending.base
        /\ selectedId' = imageHistory'[1].id
        /\ pending' = NoRequest

\* C28: an edit that succeeds adds a node whose parentId is the id of the node
\* that was selected when the edit was dispatched, also when another thumbnail
\* was clicked while the edit was outstanding, and selects the new node.
C28_ParentIsDispatchSelection ==
    [][C28_Dispatch /\ C28_Outstanding /\ C28_Completion]_vars

\* an edit of the older of two generated nodes has completed: the new node hangs
\* under it and is selected
C28_Witness ==
    /\ Len(imageHistory) = 3
    /\ pending = NoRequest
    /\ statusText = "Edit complete."
    /\ imageHistory[2].parentId = Null
    /\ imageHistory[3].parentId = Null
    /\ imageHistory[1].parentId = imageHistory[3].id
    /\ imageHistory[3].id # imageHistory[2].id
    /\ selectedId = imageHistory[1].id

(***************************************************************************)
(* C29: the buttons and the outstanding request                            *)
(***************************************************************************)
Outstanding == pending.k = "request"

\* both buttons are disabled while a request is outstanding, and only then
C29_DisabledIffOutstanding ==
    /\ generateBtnDisabled = Outstanding
    /\ editBtnDisabled = Outstanding

\* a click that dispatches nothing leaves the buttons enabled; the step that
\* settles a request enables both, whatever the outcome
C29_Steps ==
    /\ (~Outstanding /\ ~Outstanding' /\ statusText' # statusText) =>
          (~generateBtnDisabled' /\ ~editBtnDisabled')
    /\ (Outstanding /\ pending' = NoRequest) =>
          (~generateBtnDisabled' /\ ~editBtnDisabled')

\* C29: the Generate and Edit buttons are disabled exactly while a dispatched
\* request is outstanding: a click rejected by the client's validation never
\* disables them, the settling of a request (success, error response, unparsable
\* response, transport failure) enables both, and as every request settles the
\* buttons are always enabled again.
C29_ButtonsFollowRequest ==
    /\ []C29_DisabledIffOutstanding
    /\ [][C29_Steps]_vars
    /\ (Outstanding ~> (~Outstanding /\ ~generateBtnDisabled /\ ~editBtnDisabled))

\* a request has settled with a transport failure and the buttons are enabled
C29_Witness ==
    /\ statusText = "Error: Failed to fetch"
    /\ pending = NoRequest
    /\ ~generateBtnDisabled
    /\ ~editBtnDisabled

(***************************************************************************)
(* C30: the reference-image list and the file input                        *)
(***************************************************************************)
\* the list that the files shown by the input stand for
ListOf(files) == [i \in DOMAIN files |-> ReferenceOf(files[i])]

\* with the input empty (after a clear) the list, once empty, stays empty as
\* long as the user picks no files
C30_ClearStaysEmpty ==
    (referenceInput = <<>> /\ referenceImages = <<>> /\ referenceInput' = <<>>)
        => referenceImages' = <<>>

\* whenever the list takes a new value with files in it, these are the files
\* the input shows
C30_ListIsInput ==
    (referenceImages' # referenceImages /\ referenceImages' # <<>>)
        => referenceImages' = ListOf(referenceInput')

\* a generate request dispatched while the input is empty carries no references
C30_GenerateAfterClear ==
    (pending.k = "none" /\ pending'.k = "request" /\ referenceInput = <<>>)
        => pending'.payload.reference_images = Undefined

\* C30: the reference-image list reflects the user's latest action on the file
\* input under every interleaving of the file reads: after "Clear references" it
\* is empty and stays empty until files are selected again, after two selections
\* it holds the files of the second, and a generate request dispatched after a
\* clear carries no reference_images.
C30_ListReflectsLatestAction ==
    [][C30_ClearStaysEmpty /\ C30_ListIsInput /\ C30_GenerateAfterClear]_vars


====
